---- MODULE Spec2Model ----
(***************************************************************************)
(* Browser perception and control plane (xCDP).                            *)
(*                                                                         *)
(* The module models the parts of the repository, each with its own        *)
(* specification over the shared variables:                                *)
(*   SpecWorld   - the gateway's world-state store (world-state.ts)        *)
(*   SpecPolicy  - the policy layer's admission checks (policy.ts)         *)
(*   SpecGateway - the gateway's command pipeline and fan-out (server.ts)  *)
(*   SpecSync    - the in-page watcher feeding the store (watchers.ts,     *)
(*                 content/index.ts)                                       *)
(*   SpecTransport - the service worker's websocket transport             *)
(*                 (watchers.ts, background part)                          *)
(* SpecGatewayFair is SpecGateway with the timers' fairness; SpecBroadcast *)
(* and SpecDeny run the gateway with subscriptions and under a policy that *)
(* can deny in each of its ways; SpecPolicyCases runs the policy over      *)
(* chosen commands; SpecBackpressure fills the transport's queue.          *)
(*   SpecFrames   - the agent socket's frame handler, malformed frames     *)
(*                  included, with the clock advancing (server.ts,         *)
(*                  world-state.ts)                                        *)
(*   SpecHistory  - one tab's long run of snapshots and deltas             *)
(*   SpecQuery    - a controller's queries (server.ts, world-state.ts)     *)
(*   SpecIdentity - candidate ids of the page's elements (actionmap.ts)    *)
(*   SpecExec     - the page's command executor and its ack (executor,     *)
(*                  content/index.ts)                                      *)
(*   SpecClient   - the controller client's act() (PerceptionBridge)       *)
(*   SpecRequests - the controller client's concurrent requests            *)
(*   SpecDelta    - computeDelta over pairs of extractions (watchers.ts)   *)
(*   SpecDrift    - the watcher and the gateway under small layout shifts  *)
(*   SpecFind     - the page's query command (executor, actionmap.ts)      *)
(*   SpecPorts    - the service worker's tab-port table (watchers.ts,      *)
(*                  background part)                                       *)
(* SpecSyncFair is SpecSync with the debounce timers' fairness.  A         *)
(* specification leaves the variables it does not use at their initial     *)
(* values.                                                                 *)
(***************************************************************************)
EXTENDS Integers, Sequences, FiniteSets, TLC

\* ------------------------------------------------------------------ bounds

\* Number of telemetry messages the world-state store handles in one run.
MaxSteps == 3

\* Number of checkCommand calls and of clock advances in one run of the policy.
MaxChecks == 3

MaxTicks == 3

\* Number of act requests and of agent acks in one run of the gateway.
MaxActs == 1

MaxAcks == 1

\* Number of subscribe requests in one run of the gateway.
MaxSubscribes == 1

\* Number of telemetry frames in one run of the gateway.
MaxTelemetry == 1

\* Number of page changes, request_snapshot messages, forceUpdate calls and
\* connect() calls in one run of the perception agent.
MaxChanges == 2

MaxRequests == 1

MaxForces == 1

MaxConnects == 2

\* The transport: messages the tabs produce, WebSockets that have not closed
\* yet, WebSockets created since the last open event, reconnect timers
\* scheduled at once, ws.send calls that throw and update_config messages.
MaxSends == 2

MaxLive == 2

MaxAttempts == 11

MaxTimers == 2

MaxSendFails == 1

MaxConfigs == 1

\* Messages the tabs produce in a run that fills the queue.
MaxQueued == 101

\* executeCommand calls and telemetry frames in a run of the policy's denials.
MaxDenyActs == 3

MaxDenyTelemetry == 2

\* Frames the agent socket receives and readings of the clock in a run of the
\* frame handler.
MaxFrames == 3

MaxClock == 2

\* Frames of one tab in a run that fills its delta history.
MaxHistoryFrames == 53

\* Queries of a controller and snapshots of the queried tab.
MaxQueries == 1

MaxQueryFrames == 1

\* act() calls of the controller client.
MaxCalls == 2

\* Commands handed to the page's executor.
MaxExecs == 1

\* Ports the content scripts open to the service worker, and commands the
\* service worker routes to a tab.
MaxPorts == 3

MaxRouted == 1

\* ---------------------------------------------------------------- variables

VARIABLES
    tabs,       \* world-state.ts state.tabs: tabId -> TabState (a partial function)
    pointer,    \* world-state.ts state.pointer: the last pointer position, or null
    msgSeq,     \* number of telemetry messages handled so far (their timestamps)
    last        \* history: the last handler call, its message and the tab's state before it

VARIABLES
    config,         \* policy.ts config
    commandHistory, \* policy.ts commandHistory: timestamps of the allowed commands
    now,            \* the clock Date.now() reads, in ms
    nTicks,         \* number of times the clock has advanced
    nChecks,        \* number of checkCommand calls so far
    allowedLog,     \* history: every timestamp recordCommand has pushed
    lastCheck       \* history: the last checkCommand call and its result

VARIABLES
    extensionOpen,    \* server.ts extensionConnections holds an open agent socket
    replConnections,  \* server.ts replConnections: controller -> {subscribedTabId}
    replClosed,       \* the controllers whose socket has closed
    pendingCommands,  \* server.ts pendingCommands: commandId -> the waiting act
    timers,           \* the acts whose 30 s timeout is armed
    acts,             \* every executeCommand call: its command, requester and resolve() calls
    toAgent,          \* the commands transmitted to the agent socket, in order
    outbox,           \* the frames sent to each requester, in order
    nAcks,            \* number of ack frames the agent has sent
    nSubscribes       \* number of subscribe requests handled

VARIABLES
    page,               \* the document: the candidates extractActionMap() returns now
    previousCandidates, \* watchers.ts previousCandidates, in insertion order
    deltaCallback,      \* watchers.ts deltaCallback is set (isWatching)
    pendingUpdate,      \* watchers.ts pendingUpdate
    updateTimeout,      \* watchers.ts updateTimeout holds the handle of a scheduled timer
    staleTimers,        \* scheduled timers whose handle updateTimeout no longer holds
    portOpen,           \* content/index.ts port is connected
    wire,               \* the messages on their way to the gateway, in order
    lastExtraction,     \* history: the result of the most recent extractActionMap()
    nChanges,           \* number of page changes so far
    nRequests,          \* number of request_snapshot messages so far
    nForces,            \* number of forceUpdate calls so far
    nConnects           \* number of connect() calls so far

VARIABLES
    ws,                 \* watchers.ts (service worker) ws: the socket it refers to, or none
    socks,              \* readyState of every WebSocket that has not closed yet
    isConnecting,       \* service worker isConnecting
    reconnectAttempts,  \* service worker reconnectAttempts
    reconnectTimers,    \* number of scheduled setTimeout(connectWebSocket) callbacks
    messageQueue,       \* service worker messageQueue
    flushing,           \* onopen's drain loop is between two iterations
    drainTurn,          \* parity of the number of iterations the drain loop has made
    delivered,          \* the messages ws.send handed to an open socket, in order
    attempts,           \* history: WebSockets created since the last open event
    workload,           \* the kinds of message the tabs produce, cyclically
    nSent,              \* number of messages the tabs have produced
    nSendFails,         \* number of ws.send calls that threw
    nConfigs            \* number of update_config messages handled

VARIABLES
    dom,            \* the document's elements: element -> its DOM id and whether it is attached
    elementIdMap,   \* actionmap.ts elementIdMap: element -> candidate id
    idCounter,      \* actionmap.ts idCounter
    lastDom         \* history: the last change of the document

VARIABLES
    execs           \* the commands handed to the page's executor: their ack and whether it was posted

VARIABLES
    tabPorts,       \* service worker tabPorts: tabId -> the port registered for the tab
    ports,          \* every port a content script opened: its tab and its state
    routed          \* the commands handleBackendMessage handled: the port each went to

VARIABLES
    pendingRequests,  \* PerceptionBridge pendingRequests: key -> the request waiting under it
    calls             \* every act() of the client: its command, its ack and how its promise settled

tvars == <<ws, socks, isConnecting, reconnectAttempts, reconnectTimers, messageQueue,
           flushing, drainTurn, delivered, attempts, workload, nSent, nSendFails,
           nConfigs>>

wvars == <<tabs, pointer, msgSeq, last>>

ivars == <<dom, elementIdMap, idCounter, lastDom>>

rvars == <<tabPorts, ports, routed>>

evars == <<execs, rvars>>

cvars == <<pendingRequests, calls>>

svars == <<page, previousCandidates, deltaCallback, pendingUpdate, updateTimeout,
           staleTimers, portOpen, wire, lastExtraction, nChanges, nRequests, nForces,
           nConnects, ivars, evars>>

gvars == <<extensionOpen, replConnections, replClosed, pendingCommands, timers, acts,
           toAgent, outbox, nAcks, nSubscribes>>

pvars == <<config, commandHistory, now, nTicks, nChecks, allowedLog, lastCheck>>

vars == <<tabs, pointer, msgSeq, last,
          config, commandHistory, now, nTicks, nChecks, allowedLog, lastCheck,
          extensionOpen, replConnections, replClosed, pendingCommands, timers, acts,
          toAgent, outbox, nAcks, nSubscribes,
          page, previousCandidates, deltaCallback, pendingUpdate, updateTimeout,
          staleTimers, portOpen, wire, lastExtraction, nChanges, nRequests, nForces,
          nConnects, dom, elementIdMap, idCounter, lastDom, execs,
          tabPorts, ports, routed,
          pendingRequests, calls,
          ws, socks, isConnecting, reconnectAttempts, reconnectTimers, messageQueue,
          flushing, drainTurn, delivered, attempts, workload, nSent, nSendFails,
          nConfigs>>

\* ------------------------------------------------------------- world state

TabIds == {1, 2}

Ids == {"a_0", "e_x"}

Names == {"Save", "Delete account"}

Urls == {"https://example.com/", "https://other.com"}

\* An ActionCandidate is a record [id, name, disabled]: the identity and two
\* fields of different kinds (name: a string field, disabled: state.disabled).
\* An entry of delta.updated carries id and any of the other fields; an entry
\* whose id is missing is modelled by the empty (falsy) id.

NoTab == [absent |-> TRUE]

\* state.pointer before any pointer message: null.
NoPointer == [absent |-> TRUE]

\* Object.assign(existing, update): every field the update carries overwrites
\* the candidate's, the others stay.
ObjectAssign(existing, update) ==
    [f \in DOMAIN existing \cup DOMAIN update |->
        IF f \in DOMAIN update THEN update[f] ELSE existing[f]]

\* Map.set(key, value) and Map.delete(key) on a map held as a function.
MapSet(m, k, v) == [x \in DOMAIN m \cup {k} |-> IF x = k THEN v ELSE m[x]]

MapDelete(m, k) == [x \in DOMAIN m \ {k} |-> m[x]]

EmptyMap == [x \in {} |-> TRUE]

RECURSIVE deleteAll(_, _)
\* for (const id of delta.removed) candidates.delete(id)
deleteAll(m, removed) ==
    IF removed = <<>> THEN m
    ELSE deleteAll(MapDelete(m, Head(removed)), Tail(removed))

RECURSIVE setAll(_, _)
\* for (const candidate of list) candidates.set(candidate.id, candidate)
setAll(m, list) ==
    IF list = <<>> THEN m
    ELSE setAll(MapSet(m, Head(list).id, Head(list)), Tail(list))

RECURSIVE mergeAll(_, _)
\* for (const update of delta.updated) { if (!update.id) continue; ... }
mergeAll(m, updated) ==
    IF updated = <<>> THEN m
    ELSE LET u == Head(updated)
         IN  IF u.id = "" \/ u.id \notin DOMAIN m
             THEN mergeAll(m, Tail(updated))
             ELSE mergeAll(MapSet(m, u.id, ObjectAssign(m[u.id], u)), Tail(updated))

\* push(delta); if (length > MAX_DELTA_HISTORY) shift()
MAX_DELTA_HISTORY == 50

\* Mutant: at the limit the delta that just arrived is the one dropped.
pushHistoryDropNewest(h, d) ==
    IF Len(h) + 1 > MAX_DELTA_HISTORY THEN h ELSE Append(h, d)

pushHistory(h, d) ==
    LET h2 == Append(h, d)
    IN  IF Len(h2) > MAX_DELTA_HISTORY THEN Tail(h2) ELSE h2

\* Mutant: additions applied before removals.
applyDeltaAddFirst(cands, delta) ==
    mergeAll(deleteAll(setAll(cands, delta.added), delta.removed), delta.updated)

RECURSIVE setNew(_, _)
setNew(m, list) ==
    IF list = <<>> THEN m
    ELSE setNew(IF Head(list).id \in DOMAIN m THEN m ELSE MapSet(m, Head(list).id, Head(list)),
                Tail(list))

\* Mutant: updates merged before the additions, and an addition does not
\* overwrite a candidate that is already in the map.
applyDeltaMergeFirst(cands, delta) ==
    setNew(mergeAll(deleteAll(cands, delta.removed), delta.updated), delta.added)

\* The candidate map after handleDelta's three loops.
applyDelta(cands, delta) ==
    mergeAll(setAll(deleteAll(cands, delta.removed), delta.added), delta.updated)

\* message.f, undefined when the message has no such property.
field(m, f) == IF f \in DOMAIN m THEN m[f] ELSE "undefined"

\* existing?.connectedAt || Date.now(): 0 and undefined are falsy.
orNow(v) == IF v = 0 THEN now ELSE v

\* Mutant: hello builds the TabState from scratch, as for a tab it never saw.
handleHelloFresh(t, m) ==
    MapSet(t, m.tabId,
           [ url |-> m.url, viewport |-> field(m, "viewport"),
             userAgent |-> field(m, "userAgent"), connectedAt |-> now,
             lastUpdate |-> now, candidates |-> EmptyMap, deltaHistory |-> <<>> ])

handleHello(t, m) ==
    LET existing == IF m.tabId \in DOMAIN t THEN t[m.tabId] ELSE NoTab
        tabState == [ url |-> m.url,
                      viewport |-> field(m, "viewport"),
                      userAgent |-> field(m, "userAgent"),
                      connectedAt |-> IF existing # NoTab THEN orNow(existing.connectedAt)
                                      ELSE now,
                      lastUpdate |-> now,
                      candidates |-> IF existing # NoTab THEN existing.candidates
                                     ELSE EmptyMap,
                      deltaHistory |-> IF existing # NoTab THEN existing.deltaHistory
                                       ELSE <<>> ]
    IN  MapSet(t, m.tabId, tabState)

\* The TabState handleSnapshot creates for a tab it does not know.
newTabState(m) ==
    [ url |-> m.url, viewport |-> field(m, "viewport"), userAgent |-> "",
      connectedAt |-> now, lastUpdate |-> now,
      candidates |-> EmptyMap, deltaHistory |-> <<>> ]

\* Mutant: the candidate map is not cleared before it is repopulated.
handleSnapshotNoClear(t, m) ==
    LET tabState == IF m.tabId \in DOMAIN t THEN t[m.tabId] ELSE newTabState(m)
    IN  MapSet(t, m.tabId,
               [ tabState EXCEPT !.url = m.url,
                                 !.viewport = field(m, "viewport"),
                                 !.lastUpdate = now,
                                 !.candidates = setAll(tabState.candidates, m.candidates),
                                 !.deltaHistory = <<>> ])

handleSnapshot(t, m) ==
    LET tabState == IF m.tabId \in DOMAIN t THEN t[m.tabId] ELSE newTabState(m)
    IN  MapSet(t, m.tabId,
               [ tabState EXCEPT !.url = m.url,
                                 !.viewport = field(m, "viewport"),
                                 !.lastUpdate = now,
                                 !.candidates = setAll(EmptyMap, m.candidates),
                                 !.deltaHistory = <<>> ])

\* Mutant: a delta for a tab without TabState creates an empty one.
handleDeltaCreates(t, m) ==
    LET fresh == [ url |-> "", viewport |-> "undefined", userAgent |-> "",
                   connectedAt |-> now, lastUpdate |-> now,
                   candidates |-> EmptyMap, deltaHistory |-> <<>> ]
    IN  IF m.tabId \notin DOMAIN t THEN MapSet(t, m.tabId, fresh)
        ELSE MapSet(t, m.tabId,
                    [ t[m.tabId] EXCEPT
                        !.candidates = applyDelta(t[m.tabId].candidates, m),
                        !.lastUpdate = now,
                        !.deltaHistory = pushHistory(t[m.tabId].deltaHistory, m.timestamp) ])

handleDelta(t, m) ==
    IF m.tabId \notin DOMAIN t THEN t
    ELSE LET tabState == t[m.tabId]
         IN  MapSet(t, m.tabId,
                    [ tabState EXCEPT !.candidates = applyDelta(tabState.candidates, m),
                                      !.lastUpdate = now,
                                      !.deltaHistory =
                                          pushHistory(tabState.deltaHistory, m.timestamp) ])

handleDisconnect(t, tabId) == MapDelete(t, tabId)

\* ------------------------------------------------------------------ policy

\* A string the code inspects is held with its pieces: Pieces(s) is s cut into
\* substrings, so that endsWith and a pattern's test are decided on sequences.
Pieces(s) ==
    CASE s = "example.com" -> <<"example", ".", "com">>
      [] s = "Example.com" -> <<"Example", ".", "com">>
      [] s = "sub.example.com" -> <<"sub", ".", "example", ".", "com">>
      [] s = "notexample.com" -> <<"not", "example", ".", "com">>
      [] s = "other.com" -> <<"other", ".", "com">>
      [] s = "." -> <<".">>
      [] s = "Save" -> <<"Save">>
      [] s = "Delete account" -> <<"Delete", " ", "account">>
      [] s = "Buy now" -> <<"Buy", " ", "now">>
      [] s = "link delete" -> <<"link", " ", "delete">>
      [] OTHER -> <<s>>

\* String.prototype.toLowerCase, piece by piece.
toLowerCase(ps) ==
    [i \in DOMAIN ps |->
        CASE ps[i] = "Example" -> "example"
          [] ps[i] = "Delete" -> "delete"
          [] ps[i] = "Save" -> "save"
          [] ps[i] = "Buy" -> "buy"
          [] OTHER -> ps[i]]

\* String.prototype.endsWith on pieces.
endsWith(ps, suffix) ==
    /\ Len(suffix) <= Len(ps)
    /\ SubSeq(ps, Len(ps) - Len(suffix) + 1, Len(ps)) = suffix

\* A value that is undefined: the url of a tab the gateway does not hold, the
\* name of a candidate it does not hold.
Undefined == "undefined"

\* new URL(url).hostname: the host as pieces, or a throw (ParseError) when the
\* string is no URL.
ParseError == <<"TypeError">>

hostname(url) ==
    CASE url = "https://example.com/" -> Pieces("example.com")
      [] url = "https://sub.example.com/x" -> Pieces("sub.example.com")
      [] url = "https://notexample.com/" -> Pieces("notexample.com")
      [] url = "https://other.com" -> Pieces("other.com")
      [] OTHER -> ParseError

\* The check of one domainList entry d against the host.
domainMatchesSuffix(domain, d) == domain = d \/ endsWith(domain, d)

domainMatches(domain, d) ==
    domain = toLowerCase(Pieces(d))
        \/ endsWith(domain, Pieces(".") \o toLowerCase(Pieces(d)))

isDomainAllowed(cfg, url) ==
    IF cfg.domainMode = "all" THEN TRUE
    ELSE IF hostname(url) = ParseError THEN FALSE
    ELSE LET domain == toLowerCase(hostname(url))
             matches == \E i \in DOMAIN cfg.domainList :
                            domainMatches(domain, cfg.domainList[i])
         IN  IF cfg.domainMode = "allowlist" THEN matches ELSE ~matches

\* RegExp.prototype.test for the patterns of the two lists, all case-insensitive
\* and made of words with optional white space between: a pattern is held as its
\* words, and matches when they occur in the name, in order, with nothing but
\* white space between them.
PAYMENT_PATTERNS ==
    { <<"checkout">>, <<"payment">>, <<"purchase">>, <<"buy", "now">>, <<"place", "order">>,
      <<"confirm", "order">>, <<"submit", "order">>, <<"pay", "$">> }

DELETE_PATTERNS ==
    { <<"delete">>, <<"remove">>, <<"clear", "all">>, <<"destroy">>, <<"erase">> }

nameWords(name) == SelectSeq(toLowerCase(Pieces(name)), LAMBDA w : w # " ")

patternTest(pattern, name) ==
    LET words == nameWords(name)
    IN  \E i \in 1..Len(words) :
            /\ i + Len(pattern) - 1 <= Len(words)
            /\ SubSeq(words, i, i + Len(pattern) - 1) = pattern

Falsy(x) == x = Undefined \/ x = ""

isPaymentAction(cfg, elementName) ==
    IF ~cfg.blockPaymentActions THEN FALSE
    ELSE IF Falsy(elementName) THEN FALSE
    ELSE \E pat \in PAYMENT_PATTERNS : patternTest(pat, elementName)

isDeleteAction(cfg, elementName) ==
    IF ~cfg.blockDeleteActions THEN FALSE
    ELSE IF Falsy(elementName) THEN FALSE
    ELSE \E pat \in DELETE_PATTERNS : patternTest(pat, elementName)

OneSecond == 1000

OneMinute == 60000

RECURSIVE cleanOld(_, _)
\* while (commandHistory.length > 0 && commandHistory[0] < oneMinuteAgo) shift()
cleanOld(h, oneMinuteAgo) ==
    IF h # <<>> /\ Head(h) < oneMinuteAgo THEN cleanOld(Tail(h), oneMinuteAgo) ELSE h

\* Mutant: the per-second comparison lets one command too many through.
checkRateLimitsOffByOne(cfg, h, t) ==
    LET cleaned == cleanOld(h, t - OneMinute)
        recentCommands == Len(SelectSeq(cleaned, LAMBDA x : x > t - OneSecond))
    IN  IF Len(cleaned) >= cfg.maxCommandsPerMinute
        THEN [allowed |-> FALSE, reason |-> "Rate limit exceeded (per minute)",
              history |-> cleaned]
        ELSE IF recentCommands > cfg.maxCommandsPerSecond
        THEN [allowed |-> FALSE, reason |-> "Rate limit exceeded (per second)",
              history |-> cleaned]
        ELSE [allowed |-> TRUE, reason |-> Undefined, history |-> cleaned]

\* checkRateLimits at time t: the decision, and commandHistory as the cleaning
\* loop leaves it.
checkRateLimits(cfg, h, t) ==
    LET cleaned == cleanOld(h, t - OneMinute)
        recentCommands == Len(SelectSeq(cleaned, LAMBDA x : x > t - OneSecond))
    IN  IF Len(cleaned) >= cfg.maxCommandsPerMinute
        THEN [allowed |-> FALSE, reason |-> "Rate limit exceeded (per minute)",
              history |-> cleaned]
        ELSE IF recentCommands >= cfg.maxCommandsPerSecond
        THEN [allowed |-> FALSE, reason |-> "Rate limit exceeded (per second)",
              history |-> cleaned]
        ELSE [allowed |-> TRUE, reason |-> Undefined, history |-> cleaned]

\* Mutant: the dangerous-action checks apply to every command type.
isClickOrTypeAny(commandType) == TRUE

\* command.type === 'click' || command.type === 'type'
isClickOrType(commandType) == commandType \in {"click", "type"}

\* Mutant: the rate limits are tried before the domain.
checkCommandRateFirst(cfg, h, t, t2, commandType, tabUrl, elementName) ==
    LET rateCheck == checkRateLimits(cfg, h, t)
    IN  IF ~rateCheck.allowed
        THEN [allowed |-> FALSE, reason |-> rateCheck.reason, arg |-> "",
              history |-> rateCheck.history]
        ELSE IF ~Falsy(tabUrl) /\ ~isDomainAllowed(cfg, tabUrl)
        THEN [allowed |-> FALSE, reason |-> "Domain not allowed: ", arg |-> tabUrl,
              history |-> rateCheck.history]
        ELSE IF isClickOrType(commandType) /\ isPaymentAction(cfg, elementName)
        THEN [allowed |-> FALSE, reason |-> "Payment action blocked: ",
              arg |-> elementName, history |-> rateCheck.history]
        ELSE IF isClickOrType(commandType) /\ isDeleteAction(cfg, elementName)
        THEN [allowed |-> FALSE, reason |-> "Delete action blocked: ",
              arg |-> elementName, history |-> rateCheck.history]
        ELSE [allowed |-> TRUE, reason |-> Undefined, arg |-> "",
              history |-> Append(rateCheck.history, t2)]

\* Mutant: the command is recorded as soon as the rate limits pass, before the
\* action-name patterns are tried.
checkCommandRecordsEarly(cfg, h, t, t2, commandType, tabUrl, elementName) ==
    IF ~Falsy(tabUrl) /\ ~isDomainAllowed(cfg, tabUrl)
    THEN [allowed |-> FALSE, reason |-> "Domain not allowed: ", arg |-> tabUrl,
          history |-> h]
    ELSE LET rateCheck == checkRateLimits(cfg, h, t)
         IN  IF ~rateCheck.allowed
             THEN [allowed |-> FALSE, reason |-> rateCheck.reason, arg |-> "",
                   history |-> rateCheck.history]
             ELSE IF isClickOrType(commandType) /\ isPaymentAction(cfg, elementName)
             THEN [allowed |-> FALSE, reason |-> "Payment action blocked: ",
                   arg |-> elementName, history |-> Append(rateCheck.history, t2)]
             ELSE IF isClickOrType(commandType) /\ isDeleteAction(cfg, elementName)
             THEN [allowed |-> FALSE, reason |-> "Delete action blocked: ",
                   arg |-> elementName, history |-> Append(rateCheck.history, t2)]
             ELSE [allowed |-> TRUE, reason |-> Undefined, arg |-> "",
                   history |-> Append(rateCheck.history, t2)]

\* checkCommand(command, tabUrl, elementName) when Date.now() reads t in
\* checkRateLimits and t2 in recordCommand: the result, with the reason kept by
\* its kind and its argument, and commandHistory afterwards.
checkCommand(cfg, h, t, t2, commandType, tabUrl, elementName) ==
    IF ~Falsy(tabUrl) /\ ~isDomainAllowed(cfg, tabUrl)
    THEN [allowed |-> FALSE, reason |-> "Domain not allowed: ", arg |-> tabUrl,
          history |-> h]
    ELSE LET rateCheck == checkRateLimits(cfg, h, t)
         IN  IF ~rateCheck.allowed
             THEN [allowed |-> FALSE, reason |-> rateCheck.reason, arg |-> "",
                   history |-> rateCheck.history]
             ELSE IF isClickOrType(commandType) /\ isPaymentAction(cfg, elementName)
             THEN [allowed |-> FALSE, reason |-> "Payment action blocked: ",
                   arg |-> elementName, history |-> rateCheck.history]
             ELSE IF isClickOrType(commandType) /\ isDeleteAction(cfg, elementName)
             THEN [allowed |-> FALSE, reason |-> "Delete action blocked: ",
                   arg |-> elementName, history |-> rateCheck.history]
             ELSE [allowed |-> TRUE, reason |-> Undefined, arg |-> "",
                   history |-> Append(rateCheck.history, t2)]

defaultConfig ==
    [ domainMode |-> "all", domainList |-> <<>>,
      blockPaymentActions |-> TRUE, blockDeleteActions |-> TRUE,
      maxCommandsPerSecond |-> 10, maxCommandsPerMinute |-> 300 ]

\* updatePolicy(newConfig): { ...config, ...newConfig }
updatePolicy(cfg, newConfig) == ObjectAssign(cfg, newConfig)

\* The configurations the policy is run under (POST /policy at start-up).
PolicyConfigs ==
    { [maxCommandsPerSecond |-> 1, maxCommandsPerMinute |-> 2],
      [maxCommandsPerSecond |-> 2, maxCommandsPerMinute |-> 2,
       domainMode |-> "allowlist", domainList |-> <<"Example.com">>],
      [maxCommandsPerSecond |-> 2, maxCommandsPerMinute |-> 3,
       domainMode |-> "blocklist", domainList |-> <<"other.com", "example.com">>] }

\* The commands checked: type, url of the target tab, name of the target.
CheckInputs ==
    { [type |-> "click", url |-> "https://sub.example.com/x", name |-> "Save"],
      [type |-> "click", url |-> "https://other.com", name |-> "Save"],
      [type |-> "type", url |-> "https://sub.example.com/x", name |-> "Delete account"] }

\* Clock advances: 1 ms, just under a second, just under a minute.
TickSteps == {1, 999, 59000}

NoCheck == [op |-> "none"]

PolicyIdle ==
    /\ config = defaultConfig
    /\ commandHistory = <<>>
    /\ now = 0
    /\ nTicks = 0
    /\ nChecks = 0
    /\ allowedLog = <<>>
    /\ lastCheck = NoCheck

PolicyInit ==
    /\ \E c \in PolicyConfigs : config = updatePolicy(defaultConfig, c)
    /\ commandHistory = <<>>
    /\ now = 0
    /\ nTicks = 0
    /\ nChecks = 0
    /\ allowedLog = <<>>
    /\ lastCheck = NoCheck

\* The configurations and commands for the checks of the domain and the
\* action-name rules: every command type against known and unknown names, and
\* urls that do not parse.
PolicyCaseConfigs ==
    { [domainMode |-> "all"],
      [domainMode |-> "allowlist", domainList |-> <<"example.com">>],
      [domainMode |-> "blocklist", domainList |-> <<"other.com">>,
       blockPaymentActions |-> FALSE, blockDeleteActions |-> FALSE] }

CaseInputs ==
    [ type : {"click", "type", "hover", "scroll"},
      url : {"https://sub.example.com/x"},
      name : {"Delete account", "Buy now", "Save", Undefined} ]
    \cup [type : {"click"}, url : {"", "not a url", "https://other.com"}, name : {"Save"}]

PolicyCasesInit ==
    /\ \E c \in PolicyCaseConfigs : config = updatePolicy(defaultConfig, c)
    /\ commandHistory = <<>>
    /\ now = 0
    /\ nTicks = 0
    /\ nChecks = 0
    /\ allowedLog = <<>>
    /\ lastCheck = NoCheck

Tick(d) ==
    /\ nTicks < MaxTicks
    /\ now' = now + d
    /\ nTicks' = nTicks + 1
    /\ UNCHANGED <<config, commandHistory, nChecks, allowedLog, lastCheck>>
    /\ UNCHANGED <<tvars, wvars, gvars, svars, cvars>>

\* One checkCommand call; the clock may advance by a millisecond between the
\* read in checkRateLimits and the read in recordCommand.
Check(commandType, tabUrl, elementName, late) ==
    /\ nChecks < MaxChecks
    /\ LET r == checkCommand(config, commandHistory, now, now + late,
                             commandType, tabUrl, elementName)
       IN  /\ commandHistory' = r.history
           /\ now' = IF r.allowed THEN now + late ELSE now
           /\ allowedLog' = IF r.allowed THEN Append(allowedLog, now + late) ELSE allowedLog
           /\ lastCheck' = [ op |-> "check", type |-> commandType, url |-> tabUrl,
                             name |-> elementName, at |-> now,
                             allowed |-> r.allowed, reason |-> r.reason, arg |-> r.arg,
                             logBefore |-> allowedLog ]
    /\ nChecks' = nChecks + 1
    /\ UNCHANGED <<config, nTicks>>
    /\ UNCHANGED <<tvars, wvars, gvars, svars, cvars>>

\* ------------------------------------------------- world state: the inputs

HelloMsgs == [type : {"hello"}, tabId : TabIds, url : Urls]

\* The candidates that messages carry, and the lists of them in a snapshot or
\* in delta.added: up to two candidates, the same id twice included.
SaveA == [id |-> "a_0", name |-> "Save", disabled |-> FALSE]

SaveE == [id |-> "e_x", name |-> "Save", disabled |-> FALSE]

DeleteA == [id |-> "a_0", name |-> "Delete account", disabled |-> TRUE]

CandLists == {<<>>, <<SaveA>>, <<DeleteA>>, <<SaveE>>, <<SaveA, SaveE>>, <<SaveA, DeleteA>>}

RemovedLists == {<<>>, <<"a_0">>, <<"e_x">>, <<"a_0", "e_x">>}

\* delta.updated: an entry per field, an entry with both, an entry without id,
\* and two entries for one id.
UpdateLists ==
    { <<>>,
      << [id |-> "a_0", name |-> "Delete account"] >>,
      << [id |-> "a_0", disabled |-> TRUE] >>,
      << [id |-> "e_x", name |-> "Delete account", disabled |-> TRUE] >>,
      << [id |-> "", name |-> "Delete account"] >>,
      << [id |-> "a_0", name |-> "Delete account"], [id |-> "a_0", name |-> "Save"] >> }

SnapshotMsgs ==
    [type : {"snapshot"}, tabId : {1}, url : {"https://example.com/"}, candidates : CandLists]
    \cup [type : {"snapshot"}, tabId : {2}, url : {"https://other.com"},
          candidates : {<<SaveA>>}]

DeltaBodies ==
    [type : {"delta"}, tabId : {1}, removed : RemovedLists,
     added : CandLists, updated : UpdateLists]
    \cup [type : {"delta"}, tabId : {2}, removed : {<<"a_0">>},
          added : {<<>>}, updated : {<<>>}]

stamp(m, ts) == [f \in DOMAIN m \cup {"timestamp"} |-> IF f = "timestamp" THEN ts ELSE m[f]]

NoCall == [op |-> "none"]

WorldInit ==
    /\ tabs = EmptyMap
    /\ pointer = NoPointer
    /\ msgSeq = 0
    /\ last = NoCall

Hello(m) ==
    /\ msgSeq < MaxSteps
    /\ tabs' = handleHello(tabs, m)
    /\ msgSeq' = msgSeq + 1
    /\ last' = [op |-> "hello", msg |-> m, before |-> tabs]
    /\ UNCHANGED <<pointer, tvars, pvars, gvars, svars, cvars>>

Snapshot(m) ==
    /\ msgSeq < MaxSteps
    /\ tabs' = handleSnapshot(tabs, m)
    /\ msgSeq' = msgSeq + 1
    /\ last' = [op |-> "snapshot", msg |-> m, before |-> tabs]
    /\ UNCHANGED <<pointer, tvars, pvars, gvars, svars, cvars>>

Delta(m) ==
    /\ msgSeq < MaxSteps
    /\ tabs' = handleDelta(tabs, stamp(m, msgSeq + 1))
    /\ msgSeq' = msgSeq + 1
    /\ last' = [op |-> "delta", msg |-> m, before |-> tabs]
    /\ UNCHANGED <<pointer, tvars, pvars, gvars, svars, cvars>>

\* The same delta delivered again, right after it was applied.
ReplayDelta ==
    /\ last.op = "delta"
    /\ tabs' = handleDelta(tabs, stamp(last.msg, msgSeq))
    /\ msgSeq' = msgSeq
    /\ last' = [op |-> "replay", msg |-> last.msg, before |-> tabs]
    /\ UNCHANGED <<pointer, tvars, pvars, gvars, svars, cvars>>

Unload(tabId) ==
    /\ msgSeq < MaxSteps
    /\ tabs' = handleDisconnect(tabs, tabId)
    /\ msgSeq' = msgSeq + 1
    /\ last' = [op |-> "unload", msg |-> [tabId |-> tabId], before |-> tabs]
    /\ UNCHANGED <<pointer, tvars, pvars, gvars, svars, cvars>>

WorldNext ==
    \/ \E m \in HelloMsgs : Hello(m)
    \/ \E m \in SnapshotMsgs : Snapshot(m)
    \/ \E m \in DeltaBodies : Delta(m)
    \/ ReplayDelta
    \/ \E t \in TabIds : Unload(t)

\* ---------------------------------------------------- policy: the machine

PolicyNext ==
    \/ \E d \in TickSteps : Tick(d)
    \/ \E c \in CheckInputs, late \in {0, 1} : Check(c.type, c.url, c.name, late)

\* ----------------------------------------------------------------- gateway

Ctrls == {"r1"}

\* The requester of POST /command: no websocket, no entry in replConnections.
Http == "http"

\* A tabId that is undefined (a subscribe without tabId, an ack without one).
NoTabId == 0

\* JSON frames the gateway sends.  A synthesized ack carries no tabId.
ackFrame(commandId, status, reason, tabId) ==
    [type |-> "ack", commandId |-> commandId, status |-> status, reason |-> reason,
     tabId |-> tabId]

\* Mutant: the subscription is not consulted.
passesFilterAll(state, frame) == TRUE

\* broadcastToRepl's subscription filter for one connection.
passesFilter(state, frame) ==
    ~(state.subscribedTabId # NoTabId
        /\ frame.tabId # NoTabId /\ frame.tabId # state.subscribedTabId)

\* broadcastToRepl(message): the outboxes after the loop over replConnections.
broadcastToRepl(conns, ob, frame) ==
    [c \in DOMAIN ob |->
        IF c \in DOMAIN conns /\ passesFilter(conns[c], frame)
        THEN Append(ob[c], frame) ELSE ob[c]]

\* ws.send(JSON.stringify(ack)) after `await executeCommand`, or the HTTP
\* response: the frame reaches the requester whose socket is still open.
replyTo(conns, ob, c, frame) ==
    IF c = Http \/ c \in DOMAIN conns
    THEN [ob EXCEPT ![c] = Append(@, frame)] ELSE ob

\* Mutant: the timeout is not armed.
armTimeoutNever(tm, a) == tm

\* setTimeout(..., 30000) for act a.
armTimeout(tm, a) == tm \cup {a}

\* Mutant: the ack leaves the timer running.
clearTimeoutKeep(tm, a) == tm

\* clearTimeout(pending.timeout)
clearTimeout(tm, a) == tm \ {a}

\* getTab(command.tabId)?.url and tab?.candidates.get(command.id)?.name
tabUrlOf(t, cmd) == IF cmd.tabId \in DOMAIN t THEN t[cmd.tabId].url ELSE Undefined

candidateNameOf(t, cmd) ==
    IF cmd.tabId \in DOMAIN t /\ cmd.id \in DOMAIN t[cmd.tabId].candidates
    THEN t[cmd.tabId].candidates[cmd.id].name ELSE Undefined

\* The commands controllers issue.
Commands == [type : {"click"}, tabId : {1}, id : {"a_0"}]

\* The configuration the gateway runs under.
GatewayConfig ==
    [ maxCommandsPerSecond |-> 2, domainMode |-> "allowlist",
      domainList |-> <<"example.com">> ]

\* The telemetry the agent sends in a gateway run.
GatewayTelemetry ==
    { [type |-> "hello", tabId |-> 1, url |-> "https://sub.example.com/x"],
      [type |-> "hello", tabId |-> 1, url |-> "https://other.com"] }

\* The acks the agent sends for a command: the executor's, enriched with the
\* tab id by the transport, or the transport's own 'Tab not connected' without.
AckKinds == {"executor", "transport"}

agentAck(k, kind) ==
    IF kind = "executor"
    THEN ackFrame(k, "ok", "", acts[k].command.tabId)
    ELSE ackFrame(k, "fail", "Tab not connected", NoTabId)

GatewayInit ==
    /\ extensionOpen = FALSE
    /\ replConnections = EmptyMap
    /\ replClosed = {}
    /\ pendingCommands = EmptyMap
    /\ timers = {}
    /\ acts = <<>>
    /\ toAgent = <<>>
    /\ outbox = [c \in Ctrls \cup {Http} |-> <<>>]
    /\ nAcks = 0
    /\ nSubscribes = 0

\* fastify.get('/extension'): a socket is added to extensionConnections.
ExtensionConnect ==
    /\ ~extensionOpen
    /\ extensionOpen' = TRUE
    /\ UNCHANGED <<replConnections, replClosed, pendingCommands, timers, acts, toAgent,
                   outbox, nAcks, nSubscribes>>
    /\ UNCHANGED <<tvars, wvars, pvars, svars, cvars>>

\* Mutant: the close handler drops the pending commands.
pendingAfterCloseCleared(pending) == EmptyMap

\* The close and error handlers delete the socket from extensionConnections
\* and touch nothing else: pendingCommands is what it was.
pendingAfterClose(pending) == pending

\* socket.on('close') / socket.on('error') of the agent socket.
ExtensionClose ==
    /\ extensionOpen
    /\ extensionOpen' = FALSE
    /\ pendingCommands' = pendingAfterClose(pendingCommands)
    /\ UNCHANGED <<replConnections, replClosed, timers, acts, toAgent,
                   outbox, nAcks, nSubscribes>>
    /\ UNCHANGED <<tvars, wvars, pvars, svars, cvars>>

\* fastify.get('/repl'): replConnections.set(socket, {}).
ReplConnect(c) ==
    /\ c \notin DOMAIN replConnections
    /\ c \notin replClosed
    /\ replConnections' = MapSet(replConnections, c, [subscribedTabId |-> NoTabId])
    /\ UNCHANGED <<extensionOpen, replClosed, pendingCommands, timers, acts, toAgent,
                   outbox, nAcks, nSubscribes>>
    /\ UNCHANGED <<tvars, wvars, pvars, svars, cvars>>

\* socket.on('close') / socket.on('error') of a controller socket.
ReplClose(c) ==
    /\ c \in DOMAIN replConnections
    /\ replConnections' = MapDelete(replConnections, c)
    /\ replClosed' = replClosed \cup {c}
    /\ UNCHANGED <<extensionOpen, pendingCommands, timers, acts, toAgent, outbox, nAcks,
                   nSubscribes>>
    /\ UNCHANGED <<tvars, wvars, pvars, svars, cvars>>

\* handleReplRequest, case 'subscribe' (its 'subscribed' reply is no ack frame).
Subscribe(c, tabId) ==
    /\ c \in DOMAIN replConnections
    /\ nSubscribes < MaxSubscribes
    /\ nSubscribes' = nSubscribes + 1
    /\ replConnections' = MapSet(replConnections, c, [subscribedTabId |-> tabId])
    /\ UNCHANGED <<extensionOpen, replClosed, pendingCommands, timers, acts, toAgent,
                   outbox, nAcks>>
    /\ UNCHANGED <<tvars, wvars, pvars, svars, cvars>>

\* Mutant: sendToExtension reports success with no socket open.
sendToExtensionAlways(open) == TRUE

\* sendToExtension(message): true iff some agent socket is OPEN.
sendToExtension(open) == open

\* Mutant: the policy result is not consulted.
executeOutcomeNoPolicy(policyResult, open) ==
    IF ~sendToExtension(open) THEN "noext" ELSE "sent"

\* The branch executeCommand takes: the policy's denial, then the transmission.
executeOutcome(policyResult, open) ==
    IF ~policyResult.allowed THEN "denied"
    ELSE IF ~sendToExtension(open) THEN "noext"
    ELSE "sent"

\* executeCommand(command) up to the point where its promise is resolved or
\* left pending, and the reply of its caller (case 'act', POST /command) when
\* it is resolved at once.  The command id is the act's number
\* (generateCommandId gives a fresh one).  The act records, as history, the
\* policy's result and whether an agent socket was open.
executeCommand(c, cmd) ==
    /\ c = Http \/ c \in DOMAIN replConnections
    /\ LET k == Len(acts) + 1
           url == tabUrlOf(tabs, cmd)
           policyResult == checkCommand(config, commandHistory, now, now, cmd.type,
                                        url, candidateNameOf(tabs, cmd))
           outcome == executeOutcome(policyResult, extensionOpen)
           act == [command |-> cmd, requester |-> c, tabUrl |-> url, resolved |-> <<>>,
                   policy |-> [allowed |-> policyResult.allowed,
                               reason |-> policyResult.reason,
                               arg |-> policyResult.arg],
                   extensionOpen |-> extensionOpen]
       IN  /\ commandHistory' = policyResult.history
           /\ IF outcome = "denied"
              THEN LET ack == ackFrame(k, "fail", policyResult.reason, NoTabId)
                   IN  /\ acts' = Append(acts, [act EXCEPT !.resolved = <<ack>>])
                       /\ outbox' = replyTo(replConnections, outbox, c, ack)
                       /\ UNCHANGED <<toAgent, pendingCommands, timers>>
              ELSE IF outcome = "noext"
              THEN LET ack == ackFrame(k, "fail", "No extension connected", NoTabId)
                   IN  /\ acts' = Append(acts, [act EXCEPT !.resolved = <<ack>>])
                       /\ outbox' = replyTo(replConnections, outbox, c, ack)
                       /\ UNCHANGED <<toAgent, pendingCommands, timers>>
              ELSE /\ acts' = Append(acts, act)
                   /\ toAgent' = Append(toAgent, k)
                   /\ timers' = armTimeout(timers, k)
                   /\ pendingCommands' = MapSet(pendingCommands, k, k)
                   /\ UNCHANGED outbox
    /\ UNCHANGED <<extensionOpen, replConnections, replClosed, nAcks, nSubscribes>>
    /\ UNCHANGED <<tvars, wvars, svars, cvars, config, now, nTicks, nChecks, allowedLog,
                   lastCheck>>

\* handleReplRequest, case 'act', and POST /command.
ActRequest(c, cmd) ==
    /\ Len(acts) < MaxActs
    /\ executeCommand(c, cmd)

\* The timeout callback of act k fires.
TimeoutFires(k) ==
    /\ k \in timers
    /\ timers' = timers \ {k}
    /\ pendingCommands' = MapDelete(pendingCommands, k)
    /\ LET ack == ackFrame(k, "fail", "Command timeout", NoTabId)
       IN  /\ acts' = [acts EXCEPT ![k].resolved = Append(@, ack)]
           /\ outbox' = IF acts[k].resolved = <<>>
                        THEN replyTo(replConnections, outbox, acts[k].requester, ack)
                        ELSE outbox
    /\ UNCHANGED <<extensionOpen, replConnections, replClosed, toAgent, nAcks,
                   nSubscribes>>
    /\ UNCHANGED <<tvars, wvars, pvars, svars, cvars>>

\* socket.on('message') of the agent socket with an ack frame:
\* handleCommandAck(ack), then the continuation of the act it resolved.
AgentAck(k, kind) ==
    /\ extensionOpen
    /\ nAcks < MaxAcks
    /\ \E i \in DOMAIN toAgent : toAgent[i] = k
    /\ nAcks' = nAcks + 1
    /\ LET ack == agentAck(k, kind)
           pending == k \in DOMAIN pendingCommands
           sent == broadcastToRepl(replConnections, outbox, ack)
       IN  IF pending
           THEN LET a == pendingCommands[k]
                IN  /\ timers' = clearTimeout(timers, a)
                    /\ acts' = [acts EXCEPT ![a].resolved = Append(@, ack)]
                    /\ pendingCommands' = MapDelete(pendingCommands, k)
                    /\ outbox' = IF acts[a].resolved = <<>>
                                 THEN replyTo(replConnections, sent,
                                              acts[a].requester, ack)
                                 ELSE sent
           ELSE /\ outbox' = sent
                /\ UNCHANGED <<timers, acts, pendingCommands>>
    /\ UNCHANGED <<extensionOpen, replConnections, replClosed, toAgent, nSubscribes>>
    /\ UNCHANGED <<tvars, wvars, pvars, svars, cvars>>

\* handleTelemetry(message): the switch on message.type.
\* Mutant: every event of a tab disconnects it, not only unload.
handleTelemetryAnyEvent(t, m) ==
    CASE m.type = "hello" -> handleHello(t, m)
      [] m.type = "snapshot" -> handleSnapshot(t, m)
      [] m.type = "delta" -> handleDelta(t, m)
      [] m.type = "event" -> handleDisconnect(t, m.tabId)
      [] OTHER -> t

handleTelemetry(t, m) ==
    CASE m.type = "hello" -> handleHello(t, m)
      [] m.type = "snapshot" -> handleSnapshot(t, m)
      [] m.type = "delta" -> handleDelta(t, m)
      [] m.type = "event" -> IF m.eventType = "unload" THEN handleDisconnect(t, m.tabId)
                             ELSE t
      [] OTHER -> t

\* state.pointer after handleTelemetry: updatePointer on a pointer message.
updatePointer(p, m) ==
    IF m.type = "pointer" THEN [x |-> m.x, y |-> m.y, buttons |-> m.buttons] ELSE p

\* socket.on('message') of the agent socket with a telemetry frame:
\* handleTelemetry(message), which ends with broadcastToRepl(message).
onTelemetry(m) ==
    /\ extensionOpen
    /\ msgSeq' = msgSeq + 1
    /\ tabs' = handleTelemetry(tabs, m)
    /\ pointer' = updatePointer(pointer, m)
    /\ last' = [op |-> m.type, msg |-> m, before |-> tabs]
    /\ outbox' = broadcastToRepl(replConnections, outbox, m)
    /\ UNCHANGED <<extensionOpen, replConnections, replClosed, pendingCommands, timers,
                   acts, toAgent, nAcks, nSubscribes>>
    /\ UNCHANGED <<tvars, pvars, svars, cvars>>

Telemetry(m) ==
    /\ msgSeq < MaxTelemetry
    /\ onTelemetry(m)

GatewayNext ==
    \/ ExtensionConnect
    \/ ExtensionClose
    \/ \E c \in Ctrls : ReplConnect(c)
    \/ \E c \in Ctrls : ReplClose(c)
    \/ \E c \in Ctrls \cup {Http}, cmd \in Commands : ActRequest(c, cmd)
    \/ \E k \in 1..MaxActs : TimeoutFires(k)
    \/ \E k \in 1..MaxActs, kind \in AckKinds : AgentAck(k, kind)
    \/ \E m \in GatewayTelemetry : Telemetry(m)

GatewayPolicyInit ==
    /\ config = updatePolicy(defaultConfig, GatewayConfig)
    /\ commandHistory = <<>>
    /\ now = 0
    /\ nTicks = 0
    /\ nChecks = 0
    /\ allowedLog = <<>>
    /\ lastCheck = NoCheck

\* --------------------------------------- gateway: subscriptions, fan-out

\* The telemetry the agent sends in a run with subscriptions: from two tabs.
BroadcastMsgs ==
    { [type |-> "hello", tabId |-> 1, url |-> "https://sub.example.com/x"],
      [type |-> "hello", tabId |-> 2, url |-> "https://example.com/"] }

BroadcastTelemetry(m) ==
    /\ msgSeq < MaxTelemetry
    /\ onTelemetry(m)

BroadcastNext ==
    \/ ExtensionConnect
    \/ \E c \in Ctrls : ReplConnect(c)
    \/ \E c \in Ctrls, t \in TabIds \cup {NoTabId} : Subscribe(c, t)
    \/ \E c \in Ctrls, cmd \in Commands : ActRequest(c, cmd)
    \/ \E k \in 1..MaxActs : TimeoutFires(k)
    \/ \E k \in 1..MaxActs, kind \in AckKinds : AgentAck(k, kind)
    \/ \E m \in BroadcastMsgs : BroadcastTelemetry(m)

\* ------------------------------------- gateway: the policy's three denials

\* A configuration under which each of the policy's denials can happen: one
\* command per second, an allowlist, and the default block flags.
DenyConfig ==
    [ maxCommandsPerSecond |-> 1, domainMode |-> "allowlist",
      domainList |-> <<"example.com">> ]

DenyTelemetry ==
    GatewayTelemetry
    \cup { [type |-> "snapshot", tabId |-> 1, url |-> "https://sub.example.com/x",
            candidates |-> <<DeleteA>>] }

DenyCommands == [type : {"click", "hover"}, tabId : {1}, id : {"a_0"}]

DenyPolicyInit ==
    /\ config = updatePolicy(defaultConfig, DenyConfig)
    /\ commandHistory = <<>>
    /\ now = 0
    /\ nTicks = 0
    /\ nChecks = 0
    /\ allowedLog = <<>>
    /\ lastCheck = NoCheck

DenyAct(c, cmd) ==
    /\ Len(acts) < MaxDenyActs
    /\ executeCommand(c, cmd)

DenyTelemetrySent(m) ==
    /\ msgSeq < MaxDenyTelemetry
    /\ onTelemetry(m)

DenyNext ==
    \/ ExtensionConnect
    \/ \E c \in Ctrls : ReplConnect(c)
    \/ \E c \in Ctrls, cmd \in DenyCommands : DenyAct(c, cmd)
    \/ \E k \in 1..MaxDenyActs : TimeoutFires(k)
    \/ \E m \in DenyTelemetry : DenyTelemetrySent(m)

\* ------------------------------------------- gateway: the agent's frames

\* The frames the agent socket receives. A frame is the text of a message;
\* NotJson is a text JSON.parse throws on, every other frame is written as
\* the object JSON.parse returns.
NotJson == [text |-> "{"]

HelloFrames ==
    { [type |-> "hello", tabId |-> 1, url |-> "https://example.com/",
       viewport |-> "800x600", userAgent |-> "ua-a"],
      [type |-> "hello", tabId |-> 1, url |-> "https://other.com",
       viewport |-> "1024x768", userAgent |-> "ua-b"],
      [type |-> "hello", tabId |-> 2, url |-> "https://other.com",
       viewport |-> "800x600", userAgent |-> "ua-a"] }

SnapshotFrames ==
    { [type |-> "snapshot", tabId |-> 1, url |-> "https://example.com/",
       viewport |-> "1024x768", candidates |-> <<SaveA, SaveE>>],
      [type |-> "snapshot", tabId |-> 2, url |-> "https://other.com",
       viewport |-> "800x600", candidates |-> <<SaveA>>] }

DeltaFrames ==
    { [type |-> "delta", tabId |-> 1, removed |-> <<"e_x">>, added |-> <<>>,
       updated |-> << [id |-> "a_0", disabled |-> TRUE] >>],
      [type |-> "delta", tabId |-> 2, removed |-> <<>>, added |-> <<SaveE>>,
       updated |-> <<>>] }

OtherFrames ==
    { [type |-> "pointer", x |-> 10, y |-> 20, buttons |-> 1],
      [type |-> "heartbeat"],
      [type |-> "event", tabId |-> 1, eventType |-> "unload"],
      [type |-> "event", tabId |-> 2, eventType |-> "unload"],
      [type |-> "event", tabId |-> 1, eventType |-> "load"] }

\* Frames with a required field missing: a delta without removed, without
\* added or without updated, a snapshot without candidates.
MalformedFrames ==
    { NotJson,
      [type |-> "delta", tabId |-> 1, added |-> <<SaveE>>, updated |-> <<>>],
      [type |-> "delta", tabId |-> 1, removed |-> <<"a_0">>, updated |-> <<>>],
      [type |-> "delta", tabId |-> 1, removed |-> <<>>, added |-> <<SaveE>>],
      [type |-> "snapshot", tabId |-> 1, url |-> "https://other.com",
       viewport |-> "800x600"],
      [type |-> "snapshot", tabId |-> 2, url |-> "https://other.com",
       viewport |-> "800x600"] }

WellFormedFrames == HelloFrames \cup SnapshotFrames \cup DeltaFrames \cup OtherFrames

AgentFrames == WellFormedFrames \cup MalformedFrames

\* The handler throws on the frame: JSON.parse on a text that is no JSON, a
\* for...of over a list that is undefined in handleSnapshot or in handleDelta
\* (which returns before its loops for a tab it does not know), and
\* message.added.length / message.removed.length after handleDelta.
handlerThrows(t, frame) ==
    CASE frame = NotJson -> TRUE
      [] frame.type = "snapshot" -> "candidates" \notin DOMAIN frame
      [] frame.type = "delta" ->
            \/ /\ frame.tabId \in DOMAIN t
               /\ \E f \in {"removed", "added", "updated"} : f \notin DOMAIN frame
            \/ "added" \notin DOMAIN frame
            \/ Len(frame.added) = 0 /\ "removed" \notin DOMAIN frame
      [] OTHER -> FALSE

\* state.tabs at the moment the handler throws: handleSnapshot has created the
\* TabState of an unknown tab and cleared the candidates; handleDelta has run
\* the loops that come before the one over the missing list.
tabsWhenThrown(t, frame) ==
    CASE frame = NotJson -> t
      [] frame.type = "snapshot" ->
            LET tabState == IF frame.tabId \in DOMAIN t THEN t[frame.tabId]
                            ELSE newTabState(frame)
            IN  MapSet(t, frame.tabId, [tabState EXCEPT !.candidates = EmptyMap])
      [] frame.type = "delta" ->
            IF frame.tabId \notin DOMAIN t \/ "removed" \notin DOMAIN frame THEN t
            ELSE LET tabState == t[frame.tabId]
                     removedDone == deleteAll(tabState.candidates, frame.removed)
                     addedDone == IF "added" \in DOMAIN frame
                                  THEN setAll(removedDone, frame.added)
                                  ELSE removedDone
                 IN  MapSet(t, frame.tabId, [tabState EXCEPT !.candidates = addedDone])
      [] OTHER -> t

\* The catch block of socket.on('message'): the error is logged, nothing is
\* broadcast, and what the handler did before it threw stays done.
caught(frame) ==
    /\ extensionOpen
    /\ msgSeq' = msgSeq + 1
    /\ tabs' = tabsWhenThrown(tabs, frame)
    /\ last' = [op |-> "caught", msg |-> frame, before |-> tabs]
    /\ UNCHANGED pointer
    /\ UNCHANGED gvars
    /\ UNCHANGED <<tvars, pvars, svars, cvars>>

\* socket.on('message') of the agent socket with a frame that is no ack.
onMessage(frame) ==
    IF handlerThrows(tabs, frame) THEN caught(frame)
    ELSE onTelemetry(IF frame.type = "delta" THEN stamp(frame, msgSeq + 1) ELSE frame)

AgentFrame(frame) ==
    /\ msgSeq < MaxFrames
    /\ onMessage(frame)

\* Date.now() moves on between two frames.
ClockTick ==
    /\ now < MaxClock
    /\ Tick(1)

\* The gateway is started at a time after the epoch.
FramesPolicyInit ==
    /\ config = defaultConfig
    /\ commandHistory = <<>>
    /\ now = 1
    /\ nTicks = 0
    /\ nChecks = 0
    /\ allowedLog = <<>>
    /\ lastCheck = NoCheck

\* A long run of one tab: snapshots, and deltas that change no candidate,
\* enough of them to fill deltaHistory.
HistoryFrames ==
    { [type |-> "snapshot", tabId |-> 1, url |-> "https://example.com/",
       viewport |-> "800x600", candidates |-> <<SaveA>>],
      [type |-> "delta", tabId |-> 1, removed |-> <<>>, added |-> <<>>,
       updated |-> <<>>] }

HistoryFrame(frame) ==
    /\ msgSeq < MaxHistoryFrames
    /\ onMessage(frame)

HistoryNext ==
    \/ ExtensionConnect
    \/ \E frame \in HistoryFrames : HistoryFrame(frame)

FramesNext ==
    \/ ExtensionConnect
    \/ ExtensionClose
    \/ ClockTick
    \/ \E frame \in AgentFrames : AgentFrame(frame)

\* ------------------------------------------------- gateway: the queries

\* String.prototype.includes on pieces: q occurs in ps as a run of pieces.
includes(ps, q) ==
    \E i \in 1..(Len(ps) + 1) :
        /\ i + Len(q) - 1 <= Len(ps)
        /\ SubSeq(ps, i, i + Len(q) - 1) = q

\* getCandidates(tabId): the candidates of the tab, none for an unknown tab.
getCandidates(t, tabId) ==
    IF tabId \in DOMAIN t
    THEN {t[tabId].candidates[id] : id \in DOMAIN t[tabId].candidates}
    ELSE {}

\* filters?.f: undefined when there are no filters or the filter is not given.
hasFilter(request, f) == "filters" \in DOMAIN request /\ f \in DOMAIN request.filters

\* The callback of candidates.filter in searchCandidates: true for a candidate
\* that is kept.
keeps(c, search, request) ==
    LET query == toLowerCase(Pieces(search))
    IN  /\ ~(/\ ~Falsy(search)
             /\ ~includes(toLowerCase(Pieces(c.name)), query)
             /\ ~includes(toLowerCase(Pieces(c.aria)), query)
             /\ ~includes(toLowerCase(Pieces(c.id)), query))
        /\ ~(hasFilter(request, "role") /\ ~Falsy(request.filters.role)
             /\ c.role # request.filters.role)
        /\ ~(hasFilter(request, "tag") /\ ~Falsy(request.filters.tag)
             /\ c.tag # request.filters.tag)
        /\ ~(hasFilter(request, "visible") /\ c.occluded = request.filters.visible)
        /\ ~(hasFilter(request, "enabled") /\ c.state.disabled = request.filters.enabled)

searchCandidates(t, tabId, search, request) ==
    {c \in getCandidates(t, tabId) : keeps(c, search, request)}

\* case 'query' of the controller socket: request.search decides between
\* searchCandidates and getCandidates.
queryCandidates(t, request) ==
    IF ~Falsy(field(request, "search"))
    THEN searchCandidates(t, request.tabId, request.search, request)
    ELSE getCandidates(t, request.tabId)

\* The candidates of the queried tab: buttons and links, visible and occluded,
\* enabled and disabled, with the text in name, in aria or in neither.
QueryCands ==
    << [id |-> "a_0", name |-> "Save", aria |-> "", role |-> "button", tag |-> "button",
        occluded |-> FALSE, state |-> [disabled |-> FALSE]],
       [id |-> "a_1", name |-> "Delete account", aria |-> "", role |-> "button",
        tag |-> "button", occluded |-> TRUE, state |-> [disabled |-> FALSE]],
       [id |-> "e_x", name |-> "", aria |-> "Buy now", role |-> "link", tag |-> "a",
        occluded |-> FALSE, state |-> [disabled |-> TRUE]],
       [id |-> "a_2", name |-> "Buy now", aria |-> "Delete account", role |-> "link",
        tag |-> "a", occluded |-> FALSE, state |-> [disabled |-> FALSE]] >>

QuerySnapshot ==
    [type |-> "snapshot", tabId |-> 1, url |-> "https://example.com/",
     viewport |-> "800x600", candidates |-> QueryCands]

QueryFilters ==
    { [role |-> "button"], [tag |-> "a"], [visible |-> TRUE], [visible |-> FALSE],
      [enabled |-> TRUE], [enabled |-> FALSE], [role |-> "link", enabled |-> TRUE] }

QuerySearches == {"", "delete", "Buy", "a_0", "zzz"}

\* query{tabId, search?, filters?}: each of search and filters given or not.
QueryRequests ==
    [type : {"query"}, tabId : {1}]
    \cup [type : {"query"}, tabId : {1}, search : QuerySearches]
    \cup [type : {"query"}, tabId : {1}, filters : QueryFilters]
    \cup [type : {"query"}, tabId : {1}, search : QuerySearches, filters : QueryFilters]
    \cup { [type |-> "query", tabId |-> 2, search |-> "delete"] }

isCandidates(frame) == frame.type = "candidates"

\* socket.on('message') of a controller socket with a query.
onQuery(c, request) ==
    /\ c \in DOMAIN replConnections
    /\ outbox' = replyTo(replConnections, outbox, c,
                         [type |-> "candidates",
                          candidates |-> queryCandidates(tabs, request)])
    /\ last' = [op |-> "query", msg |-> request, before |-> tabs]
    /\ UNCHANGED <<tabs, pointer, msgSeq>>
    /\ UNCHANGED <<extensionOpen, replConnections, replClosed, pendingCommands, timers,
                   acts, toAgent, nAcks, nSubscribes>>
    /\ UNCHANGED <<tvars, pvars, svars, cvars>>

Query(c, request) ==
    /\ Len(SelectSeq(outbox[c], isCandidates)) < MaxQueries
    /\ onQuery(c, request)

QuerySnapshotFrame ==
    /\ msgSeq < MaxQueryFrames
    /\ onMessage(QuerySnapshot)

QueryNext ==
    \/ ExtensionConnect
    \/ \E c \in Ctrls : ReplConnect(c)
    \/ QuerySnapshotFrame
    \/ \E c \in Ctrls, request \in QueryRequests : Query(c, request)

\* ----------------------------------------------------- controller client

\* The commands the client's high-level API sends through act().
ClientCommandTypes == {"click", "type", "hover", "scroll", "focus", "select"}

\* `cmd_${Date.now()}_${random}`: a fresh id for every call.
newCommandId(k) == CASE k = 1 -> "cmd_1" [] k = 2 -> "cmd_2" [] k = 3 -> "cmd_3"

NoAck == [type |-> "none"]

\* request(type, data): const key = data.commandId || type
requestKey(type, data) ==
    IF Falsy(field(data, "commandId")) THEN type ELSE data.commandId

\* act(): the CommandResult built from the response.
commandResult(response) ==
    [ ok |-> response.status = "ok" \/ response.status = "verify",
      commandId |-> response.commandId,
      status |-> response.status ]

\* A promise settles once: the first resolve or reject wins.
settle(cs, k, outcome, result) ==
    IF cs[k].outcome = "pending"
    THEN [cs EXCEPT ![k].outcome = outcome, ![k].result = result]
    ELSE cs

ClientInit ==
    /\ pendingRequests = EmptyMap
    /\ calls = <<>>

\* click / type / hover / scroll / focus / select: act(command), which puts a
\* fresh commandId on the command and calls request('act', {command}).
Act(commandType) ==
    /\ Len(calls) < MaxCalls
    /\ LET k == Len(calls) + 1
           command == [type |-> commandType, commandId |-> newCommandId(k)]
           key == requestKey("act", [command |-> command])
       IN  /\ pendingRequests' = MapSet(pendingRequests, key, k)
           /\ calls' = Append(calls, [ command |-> command, key |-> key,
                                       outcome |-> "pending", result |-> NoAck,
                                       ack |-> NoAck, timer |-> TRUE ])
    /\ UNCHANGED <<tvars, wvars, pvars, gvars, svars>>

\* handleMessage with the ack the gateway sends for the command of call k,
\* before the 30 s timer of the call has fired.
AckDelivered(k, status) ==
    /\ k \in DOMAIN calls
    /\ calls[k].ack = NoAck
    /\ calls[k].timer
    /\ LET message == [type |-> "ack", commandId |-> calls[k].command.commandId,
                       status |-> status]
           noted == [calls EXCEPT ![k].ack = message]
       IN  IF message.commandId \in DOMAIN pendingRequests
           THEN /\ calls' = settle(noted, pendingRequests[message.commandId], "resolved",
                                   commandResult(message))
                /\ pendingRequests' = MapDelete(pendingRequests, message.commandId)
           ELSE /\ calls' = noted
                /\ UNCHANGED pendingRequests
    /\ UNCHANGED <<tvars, wvars, pvars, gvars, svars>>

\* The setTimeout callback of request(): 30 s after the call.
RequestTimeout(k) ==
    /\ k \in DOMAIN calls
    /\ calls[k].timer
    /\ LET fired == [calls EXCEPT ![k].timer = FALSE]
       IN  IF calls[k].key \in DOMAIN pendingRequests
           THEN /\ pendingRequests' = MapDelete(pendingRequests, calls[k].key)
                /\ calls' = settle(fired, k, "rejected", [type |-> "Request timeout"])
           ELSE /\ calls' = fired
                /\ UNCHANGED pendingRequests
    /\ UNCHANGED <<tvars, wvars, pvars, gvars, svars>>

\* responseToRequestType[message.type] || message.type
responseToRequestType(type) ==
    CASE type = "tabs" -> "list_tabs"
      [] type = "candidates" -> "query"
      [] type = "subscribed" -> "subscribe"
      [] type = "navigate_result" -> "navigate"
      [] OTHER -> type

\* The candidates the gateway holds for each tab.
candidatesOfTab(tabId) == IF tabId = 1 THEN <<SaveA>> ELSE <<SaveE>>

\* query(tabId): request('query', {tabId, search, filters}).
QueryCall(tabId) ==
    /\ Len(calls) < MaxCalls
    /\ LET k == Len(calls) + 1
           key == requestKey("query", [tabId |-> tabId])
       IN  /\ pendingRequests' = MapSet(pendingRequests, key, k)
           /\ calls' = Append(calls, [ command |-> [type |-> "query", tabId |-> tabId],
                                       key |-> key, outcome |-> "pending",
                                       result |-> NoAck, ack |-> NoAck, timer |-> TRUE ])
    /\ UNCHANGED <<tvars, wvars, pvars, gvars, svars>>

\* handleMessage with the gateway's `candidates` response to the query of
\* call k; the gateway answers the queries of a socket in their order.
ResponseDelivered(k) ==
    /\ k \in DOMAIN calls
    /\ calls[k].command.type = "query"
    /\ calls[k].ack = NoAck
    /\ \A j \in 1..(k - 1) : calls[j].command.type = "query" => calls[j].ack # NoAck
    /\ LET message == [type |-> "candidates",
                       candidates |-> candidatesOfTab(calls[k].command.tabId)]
           requestType == responseToRequestType(message.type)
           noted == [calls EXCEPT ![k].ack = message]
       IN  IF requestType \in DOMAIN pendingRequests
           THEN /\ calls' = settle(noted, pendingRequests[requestType], "resolved", message)
                /\ pendingRequests' = MapDelete(pendingRequests, requestType)
           ELSE /\ calls' = noted
                /\ UNCHANGED pendingRequests
    /\ UNCHANGED <<tvars, wvars, pvars, gvars, svars>>

\* The ack of the gateway for the command of an act call.
ActAck(k, status) ==
    /\ k \in DOMAIN calls
    /\ calls[k].command.type \in ClientCommandTypes
    /\ AckDelivered(k, status)

RequestsNext ==
    \/ \E commandType \in {"click", "type"} : Act(commandType)
    \/ \E tabId \in {1, 2} : QueryCall(tabId)
    \/ \E k \in 1..MaxCalls, status \in {"ok", "fail"} : ActAck(k, status)
    \/ \E k \in 1..MaxCalls : ResponseDelivered(k)
    \/ \E k \in 1..MaxCalls : RequestTimeout(k)

ClientNext ==
    \/ \E commandType \in ClientCommandTypes : Act(commandType)
    \/ \E k \in 1..MaxCalls, status \in {"ok", "verify", "fail"} : AckDelivered(k, status)
    \/ \E k \in 1..MaxCalls : RequestTimeout(k)

\* ------------------------------------- perception agent: element identity

\* The elements of a page, in document order, and the values of the DOM id
\* attribute ("" for an element without one).
Elements == {1, 2, 3}

DomIds == {"", "x", "y"}

\* `e_${existingId}`
domIdCandidate(v) == CASE v = "x" -> "e_x" [] v = "y" -> "e_y"

\* `a_${n.toString(36)}`
counterCandidate(n) == CASE n = 0 -> "a_0" [] n = 1 -> "a_1" [] n = 2 -> "a_2"

\* document.querySelectorAll(`#${CSS.escape(id)}`).length === 1
isUnique(d, v) == Cardinality({x \in Elements : d[x].attached /\ d[x].domId = v}) = 1

\* Mutant: the id is computed from the element as it is now, whatever the cache
\* holds for it.
getElementIdNoCache(d, S, e) ==
    LET existingId == d[e].domId
        useDomId == existingId # "" /\ isUnique(d, existingId)
    IN  [ map |-> [x \in DOMAIN S.map \cup {e} |->
                      IF x # e THEN S.map[x]
                      ELSE IF useDomId THEN domIdCandidate(existingId)
                      ELSE counterCandidate(S.counter)],
          counter |-> IF useDomId THEN S.counter ELSE S.counter + 1 ]

\* getElementId(element) on the cache S = [map, counter]: the cache after the
\* call; the id returned is map[e].
getElementId(d, S, e) ==
    IF e \in DOMAIN S.map THEN S
    ELSE LET existingId == d[e].domId
             useDomId == existingId # "" /\ isUnique(d, existingId)
         IN  [ map |-> MapSet(S.map, e, IF useDomId THEN domIdCandidate(existingId)
                                        ELSE counterCandidate(S.counter)),
               counter |-> IF useDomId THEN S.counter ELSE S.counter + 1 ]

\* The loop of extractActionMap over the elements of the document, from
\* element k on.
RECURSIVE extractFrom(_, _, _)
extractFrom(d, S, k) ==
    IF k \notin Elements THEN S
    ELSE extractFrom(d, IF d[k].attached THEN getElementId(d, S, k) ELSE S, k + 1)

\* getElementById(id): the first element of the document the cache maps to id.
getElementById(d, map, id) ==
    LET found == {x \in Elements : d[x].attached /\ x \in DOMAIN map /\ map[x] = id}
    IN  IF found = {} THEN 0 ELSE CHOOSE x \in found : \A y \in found : x <= y

NoDomChange == [op |-> "none"]

IdentityInit ==
    /\ dom = [e \in Elements |-> [attached |-> FALSE, domId |-> ""]]
    /\ elementIdMap = EmptyMap
    /\ idCounter = 0
    /\ lastDom = NoDomChange

\* The page inserts an element it holds (a new one, or one it removed before).
InsertElement(e) ==
    /\ ~dom[e].attached
    /\ dom' = [dom EXCEPT ![e].attached = TRUE]
    /\ lastDom' = [op |-> "insert", element |-> e]
    /\ UNCHANGED <<elementIdMap, idCounter>>
    /\ UNCHANGED <<page, previousCandidates, deltaCallback, pendingUpdate, updateTimeout,
                   staleTimers, portOpen, wire, lastExtraction, nChanges, nRequests,
                   nForces, nConnects>>
    /\ UNCHANGED <<tvars, wvars, pvars, gvars, cvars, evars>>

\* The page removes an element and keeps a reference to it.
RemoveElement(e) ==
    /\ dom[e].attached
    /\ dom' = [dom EXCEPT ![e].attached = FALSE]
    /\ lastDom' = [op |-> "remove", element |-> e]
    /\ UNCHANGED <<elementIdMap, idCounter>>
    /\ UNCHANGED <<page, previousCandidates, deltaCallback, pendingUpdate, updateTimeout,
                   staleTimers, portOpen, wire, lastExtraction, nChanges, nRequests,
                   nForces, nConnects>>
    /\ UNCHANGED <<tvars, wvars, pvars, gvars, cvars, evars>>

\* The page sets or removes the id attribute of an element.
SetDomId(e, v) ==
    /\ dom[e].domId # v
    /\ dom' = [dom EXCEPT ![e].domId = v]
    /\ lastDom' = [op |-> "setId", element |-> e]
    /\ UNCHANGED <<elementIdMap, idCounter>>
    /\ UNCHANGED <<page, previousCandidates, deltaCallback, pendingUpdate, updateTimeout,
                   staleTimers, portOpen, wire, lastExtraction, nChanges, nRequests,
                   nForces, nConnects>>
    /\ UNCHANGED <<tvars, wvars, pvars, gvars, cvars, evars>>

\* extractActionMap(): getElementId for every element of the document.
ExtractIds ==
    /\ LET S == extractFrom(dom, [map |-> elementIdMap, counter |-> idCounter], 1)
       IN  /\ elementIdMap' = S.map
           /\ idCounter' = S.counter
    /\ lastDom' = [op |-> "extract"]
    /\ UNCHANGED dom
    /\ UNCHANGED <<page, previousCandidates, deltaCallback, pendingUpdate, updateTimeout,
                   staleTimers, portOpen, wire, lastExtraction, nChanges, nRequests,
                   nForces, nConnects>>
    /\ UNCHANGED <<tvars, wvars, pvars, gvars, cvars, evars>>

IdentityNext ==
    \/ \E e \in Elements : InsertElement(e)
    \/ \E e \in Elements : RemoveElement(e)
    \/ \E e \in Elements, v \in DomIds : SetDomId(e, v)
    \/ ExtractIds

\* ------------------------------------------------- perception agent: sync

\* The tab the content script runs in (the service worker writes its id into
\* every message it forwards), and the page's url.
SyncTab == 1

SyncUrl == "https://example.com/"

\* window.innerWidth, window.innerHeight.
Viewport == [width |-> 100, height |-> 100]

\* getRect(element): the bounds rounded to pixels and, as fractions of the
\* viewport, unrounded (a fraction is held as <<numerator, denominator>>).
\* The bounds of the elements of the model are whole pixels.
getRect(bounds) ==
    [ rect |-> [x |-> bounds.left, y |-> bounds.top, w |-> bounds.width, h |-> bounds.height],
      rectN |-> [x |-> <<bounds.left, Viewport.width>>, y |-> <<bounds.top, Viewport.height>>,
                 w |-> <<bounds.width, Viewport.width>>, h |-> <<bounds.height, Viewport.height>>] ]

\* getHitPoint(rect): Math.round(rect.x + rect.w / 2) rounds a half upwards.
getHitPoint(rect) ==
    [cx |-> rect.x + ((rect.w + 1) \div 2), cy |-> rect.y + ((rect.h + 1) \div 2)]

\* The ActionCandidate that extractActionMap builds for an element with this
\* id, accessible name, disabled flag, left edge and width.
candidateOf(id, name, disabled, left, width) ==
    LET r == getRect([left |-> left, top |-> 0, width |-> width, height |-> 10])
    IN  [ id |-> id, rect |-> r.rect, rectN |-> r.rectN, role |-> "button",
          name |-> name, aria |-> "", value |-> "",
          state |-> [disabled |-> disabled, expanded |-> FALSE, checked |-> FALSE,
                     selected |-> FALSE, focused |-> FALSE],
          ctx |-> [inModal |-> FALSE, inNav |-> FALSE, inForm |-> FALSE],
          hit |-> getHitPoint(r.rect), occluded |-> FALSE ]

PageSaveA == candidateOf("a_0", "Save", FALSE, 3, 10)

PageDeleteA == candidateOf("a_0", "Delete account", TRUE, 3, 10)

PageSaveE == candidateOf("e_x", "Save", FALSE, 3, 10)

\* The documents: the candidate list extractActionMap() returns for each.
Pages == {<<>>, <<PageSaveA>>, <<PageDeleteA>>, <<PageSaveE>>, <<PageSaveA, PageSaveE>>}

extractActionMap == page

\* previousCandidates.has(id) / currentMap.get(id) on a list with distinct ids.
hasId(list, id) == \E i \in DOMAIN list : list[i].id = id

getById(list, id) == list[CHOOSE i \in DOMAIN list : list[i].id = id]

\* diffCandidate(old, new): the changed fields, or the empty record (null).
NoChanges == [x \in {} |-> x]

abs(n) == IF n < 0 THEN 0 - n ELSE n

\* Mutant: the rect is compared without tolerance.
rectMovedAtAll(oldRect, newRect) == oldRect # newRect

\* Math.abs(old.rect.x - new.rect.x) > 2 || ... y ... w ... h
rectMoved(oldRect, newRect) ==
    \/ abs(oldRect.x - newRect.x) > 2
    \/ abs(oldRect.y - newRect.y) > 2
    \/ abs(oldRect.w - newRect.w) > 2
    \/ abs(oldRect.h - newRect.h) > 2

\* changes.rect, changes.rectN, changes.hit are set together.
rectFields == {"rect", "rectN", "hit"}

diffCandidate(oldCandidate, newCandidate) ==
    LET changed ==
            (IF rectMoved(oldCandidate.rect, newCandidate.rect) THEN rectFields ELSE {})
            \cup (IF \E f \in {"disabled", "expanded", "checked", "selected", "focused"} :
                        oldCandidate.state[f] # newCandidate.state[f]
                  THEN {"state"} ELSE {})
            \cup {f \in {"name", "value", "occluded"} : oldCandidate[f] # newCandidate[f]}
            \cup (IF \E f \in {"inModal", "inNav"} :
                        oldCandidate.ctx[f] # newCandidate.ctx[f]
                  THEN {"ctx"} ELSE {})
    IN  [f \in changed |-> newCandidate[f]]

RECURSIVE removedOf(_, _)
removedOf(prev, current) ==
    IF prev = <<>> THEN <<>>
    ELSE (IF hasId(current, Head(prev).id) THEN <<>> ELSE <<Head(prev).id>>)
             \o removedOf(Tail(prev), current)

RECURSIVE updatedOf(_, _)
updatedOf(prev, current) ==
    IF prev = <<>> THEN <<>>
    ELSE LET id == Head(prev).id
             diff == IF hasId(current, id)
                     THEN diffCandidate(Head(prev), getById(current, id))
                     ELSE NoChanges
         IN  (IF diff = NoChanges THEN <<>>
              ELSE <<[f \in DOMAIN diff \cup {"id"} |->
                         IF f = "id" THEN id ELSE diff[f]]>>)
                 \o updatedOf(Tail(prev), current)

RECURSIVE addedOf(_, _)
addedOf(prev, current) ==
    IF current = <<>> THEN <<>>
    ELSE (IF hasId(prev, Head(current).id) THEN <<>> ELSE <<Head(current)>>)
             \o addedOf(prev, Tail(current))

\* computeDelta(currentCandidates) against previousCandidates.
computeDelta(prev, current, ts) ==
    [ type |-> "delta", tabId |-> SyncTab, timestamp |-> ts,
      added |-> addedOf(prev, current),
      removed |-> removedOf(prev, current),
      updated |-> updatedOf(prev, current) ]

createHelloMessage == [type |-> "hello", tabId |-> SyncTab, url |-> SyncUrl]

createSnapshotMessage(candidates) ==
    [type |-> "snapshot", tabId |-> SyncTab, url |-> SyncUrl, candidates |-> candidates]

unloadEvent == [type |-> "event", tabId |-> SyncTab, eventType |-> "unload"]

\* The service worker before any content script has connected.
PortsInit ==
    /\ tabPorts = EmptyMap
    /\ ports = <<>>
    /\ routed = <<>>

SyncInit ==
    /\ page = <<PageSaveA>>
    /\ previousCandidates = <<>>
    /\ deltaCallback = FALSE
    /\ pendingUpdate = FALSE
    /\ updateTimeout = FALSE
    /\ staleTimers = 0
    /\ portOpen = FALSE
    /\ wire = <<>>
    /\ lastExtraction = <<>>
    /\ nChanges = 0
    /\ nRequests = 0
    /\ nForces = 0
    /\ nConnects = 0
    /\ IdentityInit
    /\ execs = <<>>
    /\ PortsInit

\* processPendingUpdate(): extract, emit the delta if it is not empty, and
\* take the extraction as the new baseline.  A timer whose handle it drops
\* stays scheduled.
processPendingUpdate ==
    IF ~deltaCallback
    THEN UNCHANGED <<pendingUpdate, updateTimeout, wire, previousCandidates,
                     lastExtraction>>
    ELSE LET currentCandidates == extractActionMap
             delta == computeDelta(previousCandidates, currentCandidates, nChanges)
         IN  /\ pendingUpdate' = FALSE
             /\ updateTimeout' = FALSE
             /\ wire' = IF delta.added # <<>> \/ delta.removed # <<>>
                            \/ delta.updated # <<>>
                        THEN Append(wire, delta) ELSE wire
             /\ previousCandidates' = currentCandidates
             /\ lastExtraction' = currentCandidates

\* connect(): hello, startWatching(handleDelta), the initial snapshot.
Connect ==
    /\ ~portOpen
    /\ nConnects < MaxConnects
    /\ nConnects' = nConnects + 1
    /\ portOpen' = TRUE
    /\ deltaCallback' = TRUE
    /\ previousCandidates' = extractActionMap
    /\ lastExtraction' = extractActionMap
    /\ wire' = wire \o <<createHelloMessage, createSnapshotMessage(extractActionMap)>>
    /\ UNCHANGED <<page, pendingUpdate, updateTimeout, staleTimers, nChanges, nRequests,
                   nForces>>
    /\ UNCHANGED <<tvars, wvars, pvars, gvars, ivars, cvars, evars>>

\* port.onDisconnect: stopWatching() in the content script, and the service
\* worker's 'unload' event for the tab.
PortDisconnect ==
    /\ portOpen
    /\ portOpen' = FALSE
    /\ deltaCallback' = FALSE
    /\ updateTimeout' = FALSE
    /\ previousCandidates' = <<>>
    /\ wire' = Append(wire, unloadEvent)
    /\ UNCHANGED <<page, pendingUpdate, staleTimers, lastExtraction, nChanges, nRequests,
                   nForces, nConnects>>
    /\ UNCHANGED <<tvars, wvars, pvars, gvars, ivars, cvars, evars>>

\* The document changes; while the observers are installed the mutation is
\* reported and handleMutations calls scheduleUpdate().
PageChange(newPage) ==
    /\ nChanges < MaxChanges
    /\ newPage # page
    /\ nChanges' = nChanges + 1
    /\ page' = newPage
    /\ IF deltaCallback /\ ~pendingUpdate
       THEN /\ pendingUpdate' = TRUE
            /\ updateTimeout' = TRUE
       ELSE UNCHANGED <<pendingUpdate, updateTimeout>>
    /\ UNCHANGED <<previousCandidates, deltaCallback, staleTimers, portOpen, wire,
                   lastExtraction, nRequests, nForces, nConnects>>
    /\ UNCHANGED <<tvars, wvars, pvars, gvars, ivars, cvars, evars>>

\* The debounce timer updateTimeout refers to fires.
TimerFires ==
    /\ updateTimeout
    /\ processPendingUpdate
    /\ UNCHANGED <<page, deltaCallback, staleTimers, portOpen, nChanges, nRequests,
                   nForces, nConnects>>
    /\ UNCHANGED <<tvars, wvars, pvars, gvars, ivars, cvars, evars>>

\* A timer that forceUpdate left scheduled fires.
StaleTimerFires ==
    /\ staleTimers > 0
    /\ staleTimers' = IF deltaCallback /\ updateTimeout THEN staleTimers
                      ELSE staleTimers - 1
    /\ processPendingUpdate
    /\ UNCHANGED <<page, deltaCallback, portOpen, nChanges, nRequests, nForces,
                   nConnects>>
    /\ UNCHANGED <<tvars, wvars, pvars, gvars, ivars, cvars, evars>>

\* handleVisibilityChange on a connected page: forceUpdate().
ForceUpdate ==
    /\ portOpen
    /\ deltaCallback
    /\ nForces < MaxForces
    /\ nForces' = nForces + 1
    /\ staleTimers' = IF updateTimeout THEN staleTimers + 1 ELSE staleTimers
    /\ processPendingUpdate
    /\ UNCHANGED <<page, deltaCallback, portOpen, nChanges, nRequests, nConnects>>
    /\ UNCHANGED <<tvars, wvars, pvars, gvars, ivars, cvars, evars>>

\* port.onMessage with {type: 'request_snapshot'} (the service worker asks on
\* websocket open and when the tab finishes loading).
RequestSnapshot ==
    /\ portOpen
    /\ nRequests < MaxRequests
    /\ nRequests' = nRequests + 1
    /\ lastExtraction' = extractActionMap
    /\ wire' = Append(wire, createSnapshotMessage(extractActionMap))
    /\ UNCHANGED <<page, previousCandidates, deltaCallback, pendingUpdate, updateTimeout,
                   staleTimers, portOpen, nChanges, nForces, nConnects>>
    /\ UNCHANGED <<tvars, wvars, pvars, gvars, ivars, cvars, evars>>

\* The gateway receives the next message: handleTelemetry(message).
GatewayReceives ==
    /\ wire # <<>>
    /\ wire' = Tail(wire)
    /\ LET m == Head(wire)
       IN  tabs' = CASE m.type = "hello" -> handleHello(tabs, m)
                     [] m.type = "snapshot" -> handleSnapshot(tabs, m)
                     [] m.type = "delta" -> handleDelta(tabs, m)
                     [] m.type = "event" -> handleDisconnect(tabs, m.tabId)
    /\ UNCHANGED <<pointer, msgSeq, last>>
    /\ UNCHANGED <<page, previousCandidates, deltaCallback, pendingUpdate, updateTimeout,
                   staleTimers, portOpen, lastExtraction, nChanges, nRequests, nForces,
                   nConnects>>
    /\ UNCHANGED <<tvars, pvars, gvars, ivars, cvars, evars>>

SyncNext ==
    \/ Connect
    \/ PortDisconnect
    \/ \E newPage \in Pages : PageChange(newPage)
    \/ TimerFires
    \/ StaleTimerFires
    \/ ForceUpdate
    \/ RequestSnapshot
    \/ GatewayReceives

\* ---------------------------------------- perception agent: computeDelta

\* The element a_0 as successive extractions see it: one pixel to the right,
\* moved and widened about the same centre, three pixels to the right.
PageSaveANear == candidateOf("a_0", "Save", FALSE, 4, 10)

PageSaveAWide == candidateOf("a_0", "Save", FALSE, 0, 16)

PageSaveAFar == candidateOf("a_0", "Save", FALSE, 6, 10)

DeltaLists ==
    LET As == {PageSaveA, PageSaveANear, PageSaveAWide, PageSaveAFar, PageDeleteA}
    IN  {<<>>, <<PageSaveE>>} \cup {<<a>> : a \in As} \cup {<<a, PageSaveE>> : a \in As}

\* A watching content script whose baseline and whose document are any two
\* of the lists.
DeltaInit ==
    /\ page \in DeltaLists
    /\ previousCandidates \in DeltaLists
    /\ lastExtraction = previousCandidates
    /\ deltaCallback = TRUE
    /\ portOpen = TRUE
    /\ pendingUpdate = FALSE
    /\ updateTimeout = FALSE
    /\ staleTimers = 0
    /\ wire = <<>>
    /\ nChanges = 0
    /\ nRequests = 0
    /\ nForces = 0
    /\ nConnects = 0
    /\ IdentityInit
    /\ execs = <<>>
    /\ PortsInit

DeltaNext == ForceUpdate

\* The element a_0 drifting to the right: layout shifts of one, two and four
\* pixels from where the page first shows it.
PageSaveADrift == candidateOf("a_0", "Save", FALSE, 5, 10)

PageSaveAGone == candidateOf("a_0", "Save", FALSE, 7, 10)

DriftPages == {<<PageSaveA>>, <<PageSaveANear>>, <<PageSaveADrift>>, <<PageSaveAGone>>}

DriftNext ==
    \/ Connect
    \/ \E newPage \in DriftPages : PageChange(newPage)
    \/ TimerFires
    \/ StaleTimerFires
    \/ ForceUpdate
    \/ GatewayReceives

\* ---------------------------------- perception agent: the page's executor

\* The elements getElementById finds, by candidate id, with what they are: a
\* button, a text input, a select, an svg element (no HTMLElement). Any other
\* id resolves to no element.
kindOf(id) ==
    CASE id = "a_0" -> "button"
      [] id = "a_1" -> "input"
      [] id = "a_2" -> "select"
      [] id = "a_3" -> "svg"
      [] OTHER -> "none"

ExecIds == {"a_0", "a_1", "a_2", "a_3", "a_9"}

ExecCommands ==
    [type : {"hover"}, id : ExecIds, duration : {0, 100}]
    \cup [type : {"click", "type", "focus", "select"}, id : ExecIds]
    \cup [type : {"scroll"}, target : {"viewport", "a_0", "a_9"}]
    \cup [type : {"capture_patch", "bogus"}]

pageAckOk(commandId) == [type |-> "ack", commandId |-> commandId, status |-> "ok"]

pageAckVerify(commandId) == [type |-> "ack", commandId |-> commandId, status |-> "verify"]

pageAckFail(commandId, reason) ==
    [type |-> "ack", commandId |-> commandId, status |-> "fail", reason |-> reason]

\* ackOk(commandId, result)
pageAckResult(commandId, result) ==
    [type |-> "ack", commandId |-> commandId, status |-> "ok", result |-> result]

\* Array.prototype.find: the first element that passes, or null.
NoCandidate == [absent |-> TRUE]

find(list, P(_)) ==
    IF \E i \in DOMAIN list : P(list[i])
    THEN list[CHOOSE i \in DOMAIN list : P(list[i]) /\ \A j \in 1..(i - 1) : ~P(list[j])]
    ELSE NoCandidate

\* Array.prototype.slice(0, n)
sliceFirst(list, n) == IF Len(list) <= n THEN list ELSE SubSeq(list, 1, n)

\* query.match(/^(\w+)\s+(.+)$/): a first word, white space, and the rest.
roleMatch(query) == Len(query) >= 3 /\ query[1] # " " /\ query[2] = " "

\* findCandidate(search, candidates): the first exact match on name or aria,
\* else the first partial match on name or aria, else the first match of
\* role and partial text, else null.
findCandidate(search, candidates) ==
    LET query == toLowerCase(Pieces(search))
        name(c) == toLowerCase(Pieces(c.name))
        aria(c) == toLowerCase(Pieces(c.aria))
        exact == find(candidates, LAMBDA c : name(c) = query \/ aria(c) = query)
        partial == find(candidates,
                        LAMBDA c : includes(name(c), query) \/ includes(aria(c), query))
        role == query[1]
        text == SubSeq(query, 3, Len(query))
        byRole == find(candidates,
                       LAMBDA c : /\ c.role = role
                                  /\ includes(name(c), text) \/ includes(aria(c), text))
    IN  IF exact # NoCandidate THEN exact
        ELSE IF partial # NoCandidate THEN partial
        ELSE IF roleMatch(query) THEN byRole
        ELSE NoCandidate

\* executeQuery(cmd) over the candidates extractActionMap() returns.
executeQuery(cmd, candidates) ==
    LET passes(c) ==
            /\ (hasFilter(cmd, "role") /\ ~Falsy(cmd.filters.role))
                   => c.role = cmd.filters.role
            /\ (hasFilter(cmd, "tag") /\ ~Falsy(cmd.filters.tag))
                   => c.tag = cmd.filters.tag
            /\ hasFilter(cmd, "visible") => (~c.occluded) = cmd.filters.visible
            /\ hasFilter(cmd, "enabled") => (~c.state.disabled) = cmd.filters.enabled
        filtered == SelectSeq(candidates, passes)
        query == toLowerCase(Pieces(field(cmd, "search")))
        match == findCandidate(cmd.search, filtered)
        matches == SelectSeq(filtered,
                             LAMBDA c : \/ includes(toLowerCase(Pieces(c.name)), query)
                                        \/ includes(toLowerCase(Pieces(c.aria)), query))
    IN  IF ~Falsy(field(cmd, "search"))
        THEN IF match # NoCandidate
             THEN pageAckResult(cmd.commandId, [matches |-> <<match>>])
             ELSE pageAckResult(cmd.commandId, [matches |-> sliceFirst(matches, 10)])
        ELSE pageAckResult(cmd.commandId, [matches |-> sliceFirst(filtered, 20)])

\* executeCommand(command) of the page: the ack its promise resolves with.
\* throws says whether dispatching the events (focus, scrollBy) throws.
executeInPage(cmd, throws) ==
    LET kind == kindOf(IF cmd.type = "scroll" THEN cmd.target ELSE field(cmd, "id"))
        thrown == pageAckFail(cmd.commandId, "dispatch failed")
        notFound == pageAckFail(cmd.commandId, "Element not found")
    IN  CASE cmd.type \in {"hover", "click"} ->
                IF kind = "none" THEN notFound
                ELSE IF throws THEN thrown
                ELSE pageAckVerify(cmd.commandId)
          [] cmd.type = "type" ->
                IF kind = "none" THEN notFound
                ELSE IF kind # "input"
                THEN pageAckFail(cmd.commandId, "Element is not typeable")
                ELSE IF throws THEN thrown
                ELSE pageAckOk(cmd.commandId)
          [] cmd.type = "scroll" ->
                IF cmd.target # "viewport" /\ kind = "none"
                THEN pageAckFail(cmd.commandId, "Scroll target not found")
                ELSE IF throws THEN thrown
                ELSE pageAckOk(cmd.commandId)
          [] cmd.type = "focus" ->
                IF kind = "none" THEN notFound
                ELSE IF kind = "svg"
                THEN pageAckFail(cmd.commandId, "Element cannot be focused")
                ELSE IF throws THEN thrown
                ELSE pageAckOk(cmd.commandId)
          [] cmd.type = "select" ->
                IF kind = "none" THEN notFound
                ELSE IF kind # "select"
                THEN pageAckFail(cmd.commandId, "Element is not a select")
                ELSE IF throws THEN thrown
                ELSE pageAckOk(cmd.commandId)
          [] cmd.type = "query" -> executeQuery(cmd, extractActionMap)
          [] cmd.type = "capture_patch" ->
                pageAckFail(cmd.commandId, "capture_patch not implemented")
          [] OTHER -> pageAckFail(cmd.commandId, "Unknown command type")

\* The executor waits on a timer before it returns: executeScroll for 300 ms
\* after scrollBy, executeHover for cmd.duration after the mouse events.
waitsOnTimer(cmd, throws) ==
    /\ executeInPage(cmd, throws).status # "fail"
    /\ \/ cmd.type = "scroll"
       \/ cmd.type = "hover" /\ cmd.duration # 0

\* port.onMessage with a command: handleCommand(command) up to the first timer
\* the executor waits on, or, when it waits on none, to its end.
handleCommand(command, throws) ==
    /\ portOpen
    /\ LET k == Len(execs) + 1
           cmd == [f \in DOMAIN command \cup {"commandId"} |->
                      IF f = "commandId" THEN newCommandId(k) ELSE command[f]]
           ack == executeInPage(cmd, throws)
       IN  IF waitsOnTimer(cmd, throws)
           THEN /\ execs' = Append(execs, [command |-> cmd, ack |-> ack,
                                           stage |-> "running", posted |-> 0])
                /\ UNCHANGED wire
           ELSE /\ wire' = Append(wire, ack)
                /\ execs' = Append(execs, [command |-> cmd, ack |-> ack,
                                           stage |-> "returned", posted |-> 1])
    /\ UNCHANGED <<page, previousCandidates, deltaCallback, pendingUpdate, updateTimeout,
                   staleTimers, portOpen, lastExtraction, nChanges, nRequests, nForces,
                   nConnects>>
    /\ UNCHANGED <<tvars, wvars, pvars, gvars, ivars, cvars, rvars>>

CommandArrives(command, throws) ==
    /\ Len(execs) < MaxExecs
    /\ handleCommand(command, throws)

\* The timer the executor waits on fires: executeCommand returns its ack and
\* handleCommand calls sendToBackground(ack).
ExecutorReturns(k) ==
    /\ k \in DOMAIN execs
    /\ execs[k].stage = "running"
    /\ wire' = IF portOpen THEN Append(wire, execs[k].ack) ELSE wire
    /\ execs' = [execs EXCEPT ![k].stage = "returned",
                              ![k].posted = IF portOpen THEN 1 ELSE 0]
    /\ UNCHANGED <<page, previousCandidates, deltaCallback, pendingUpdate, updateTimeout,
                   staleTimers, portOpen, lastExtraction, nChanges, nRequests, nForces,
                   nConnects>>
    /\ UNCHANGED <<tvars, wvars, pvars, gvars, ivars, cvars, rvars>>

ExecNext ==
    \/ Connect
    \/ PortDisconnect
    \/ \E command \in ExecCommands, throws \in BOOLEAN : CommandArrives(command, throws)
    \/ \E k \in 1..MaxExecs : ExecutorReturns(k)

\* ------------------------------------ perception agent: the page's query

\* The candidates of the queried page: the searched text as the name of one,
\* as the aria label of another, inside the name of a third.
FindByName ==
    [id |-> "a_1", name |-> "Delete", aria |-> "", role |-> "button", tag |-> "button",
     occluded |-> FALSE, state |-> [disabled |-> FALSE]]

FindByAria ==
    [id |-> "a_2", name |-> "Buy now", aria |-> "Delete", role |-> "link", tag |-> "a",
     occluded |-> FALSE, state |-> [disabled |-> FALSE]]

FindInName ==
    [id |-> "a_3", name |-> "Delete account", aria |-> "", role |-> "link", tag |-> "a",
     occluded |-> TRUE, state |-> [disabled |-> TRUE]]

FindOther ==
    [id |-> "a_0", name |-> "Save", aria |-> "", role |-> "button", tag |-> "button",
     occluded |-> FALSE, state |-> [disabled |-> FALSE]]

FindCands == {FindByName, FindByAria, FindInName, FindOther}

\* The documents: up to two of the candidates, in either order.
FindPages ==
    {<<>>} \cup {<<c>> : c \in FindCands}
           \cup {<<c, d>> : <<c, d>> \in {x \in FindCands \X FindCands : x[1] # x[2]}}

FindSearches == {"Delete", "delete", "Delete account", "link delete", "zzz"}

FindCommands ==
    [type : {"query"}]
    \cup [type : {"query"}, search : FindSearches]
    \cup [type : {"query"}, search : FindSearches,
          filters : {[role |-> "link"], [visible |-> TRUE], [enabled |-> FALSE]}]

\* A connected content script over any of the documents.
FindInit ==
    /\ page \in FindPages
    /\ previousCandidates = page
    /\ lastExtraction = page
    /\ deltaCallback = TRUE
    /\ portOpen = TRUE
    /\ pendingUpdate = FALSE
    /\ updateTimeout = FALSE
    /\ staleTimers = 0
    /\ wire = <<>>
    /\ nChanges = 0
    /\ nRequests = 0
    /\ nForces = 0
    /\ nConnects = 1
    /\ IdentityInit
    /\ execs = <<>>
    /\ PortsInit

FindNext == \E command \in FindCommands : CommandArrives(command, FALSE)

\* --------------------------------------- perception agent: the transport

\* config.maxReconnectAttempts, config.backpressureThreshold and the 10 of
\* slice(-10).
maxReconnectAttempts == 10

backpressureThreshold == 100

KeptMessages == 10

\* ws === null
NoSocket == 0

\* What the tabs produce in a run that fills the queue: nothing essential,
\* fewer than ten essential messages in a hundred, more than ten, only
\* essential ones.
Workloads ==
    { <<"delta">>,
      <<"snapshot", "delta", "pointer", "delta", "event", "delta", "ack", "delta",
        "delta", "delta", "delta", "delta", "delta">>,
      <<"hello", "delta", "snapshot", "pointer", "event", "ack">>,
      <<"snapshot">> }

\* The variables connectWebSocket and sendToBackend read and write.
TState ==
    [ ws |-> ws, socks |-> socks, isConnecting |-> isConnecting,
      messageQueue |-> messageQueue, delivered |-> delivered, attempts |-> attempts ]

SetTState(S) ==
    /\ ws' = S.ws
    /\ socks' = S.socks
    /\ isConnecting' = S.isConnecting
    /\ messageQueue' = S.messageQueue
    /\ delivered' = S.delivered
    /\ attempts' = S.attempts

\* ws && ws.readyState === WebSocket.OPEN
isOpen(S) == S.ws \in DOMAIN S.socks /\ S.socks[S.ws] = "open"

\* The name of the next WebSocket: the least one no live socket bears.
newSocket(S) ==
    CHOOSE i \in 1..(Cardinality(DOMAIN S.socks) + 1) :
        /\ i \notin DOMAIN S.socks
        /\ \A j \in 1..(i - 1) : j \in DOMAIN S.socks

\* connectWebSocket(): a new WebSocket unless one is being created or is open.
connectWebSocket(S) ==
    IF S.isConnecting \/ isOpen(S)
    THEN S
    ELSE [S EXCEPT !.isConnecting = TRUE,
                   !.socks = MapSet(S.socks, newSocket(S), "connecting"),
                   !.ws = newSocket(S),
                   !.attempts = @ + 1]

\* The run's bounds on live sockets and on attempts.
withinBounds(S) ==
    /\ Cardinality(DOMAIN S.socks) <= MaxLive
    /\ S.attempts <= MaxAttempts

\* m.type === 'snapshot' || m.type === 'hello'
isEssential(m) == m.type \in {"snapshot", "hello"}

\* slice(-n)
sliceLast(q, n) == IF Len(q) <= n THEN q ELSE SubSeq(q, Len(q) - n + 1, Len(q))

\* Mutant: the trim keeps the first messages, not the last.
enqueueKeepFirst(q, m) ==
    LET pushed == Append(q, m)
        kept == SelectSeq(pushed, isEssential)
    IN  IF Len(pushed) > backpressureThreshold
        THEN (IF Len(kept) <= KeptMessages THEN kept ELSE SubSeq(kept, 1, KeptMessages))
        ELSE pushed

\* messageQueue.push(message), then the backpressure trim.
enqueue(q, m) ==
    LET pushed == Append(q, m)
    IN  IF Len(pushed) > backpressureThreshold
        THEN sliceLast(SelectSeq(pushed, isEssential), KeptMessages)
        ELSE pushed

\* sendToBackend(message); throws: ws.send throws.
sendToBackend(S, m, throws) ==
    IF isOpen(S)
    THEN IF throws
         THEN [S EXCEPT !.messageQueue = enqueue(@, m)]
         ELSE [S EXCEPT !.delivered = Append(@, m)]
    ELSE connectWebSocket([S EXCEPT !.messageQueue = enqueue(@, m)])

\* The service worker after its top-level code ran: the initial
\* connectWebSocket() has created the first socket.
TransportStart ==
    /\ ws = 1
    /\ socks = MapSet(EmptyMap, 1, "connecting")
    /\ isConnecting = TRUE
    /\ reconnectAttempts = 0
    /\ reconnectTimers = 0
    /\ messageQueue = <<>>
    /\ flushing = FALSE
    /\ drainTurn = 0
    /\ delivered = <<>>
    /\ attempts = 0
    /\ nSent = 0
    /\ nSendFails = 0
    /\ nConfigs = 0

TransportInit == TransportStart /\ workload = <<"delta">>

BackpressureInit == TransportStart /\ workload \in Workloads

\* ws.send may throw only when it is called, and a bounded number of times.
mayThrow(throws) == throws => (isOpen(TState) /\ nSendFails < MaxSendFails)

\* port.onMessage / port.onDisconnect of a tab: sendToBackend(enrichedMessage).
\* The message carries its number in the order the tabs produced it.
portMessage(kind, throws) ==
    /\ ~flushing
    /\ mayThrow(throws)
    /\ LET S == sendToBackend(TState, [type |-> kind, n |-> nSent + 1], throws)
       IN  /\ withinBounds(S)
           /\ SetTState(S)
    /\ nSent' = nSent + 1
    /\ nSendFails' = IF throws THEN nSendFails + 1 ELSE nSendFails
    /\ UNCHANGED <<reconnectAttempts, reconnectTimers, flushing, workload, nConfigs>>
    /\ UNCHANGED <<drainTurn, wvars, pvars, gvars, svars, cvars>>

TabSends(kind, throws) ==
    /\ nSent < MaxSends
    /\ portMessage(kind, throws)

\* The tabs produce the next message of the workload.
WorkloadSends ==
    /\ nSent < MaxQueued
    /\ portMessage(workload[(nSent % Len(workload)) + 1], FALSE)

\* chrome.runtime.onConnect of a tab: connectWebSocket().
TabConnects ==
    /\ ~flushing
    /\ LET S == connectWebSocket(TState)
       IN  /\ withinBounds(S)
           /\ SetTState(S)
    /\ UNCHANGED <<reconnectAttempts, reconnectTimers, flushing, workload, nSent,
                   nSendFails, nConfigs>>
    /\ UNCHANGED <<drainTurn, wvars, pvars, gvars, svars, cvars>>

\* The open event of socket s: onopen up to the drain loop's first test.
SocketOpens(s) ==
    /\ ~flushing
    /\ s \in DOMAIN socks
    /\ socks[s] = "connecting"
    /\ socks' = [socks EXCEPT ![s] = "open"]
    /\ isConnecting' = FALSE
    /\ reconnectAttempts' = 0
    /\ attempts' = 0
    /\ flushing' = (messageQueue # <<>>)
    /\ drainTurn' = 0
    /\ UNCHANGED <<ws, reconnectTimers, messageQueue, delivered, workload, nSent,
                   nSendFails, nConfigs>>
    /\ UNCHANGED <<wvars, pvars, gvars, svars, cvars>>

\* One iteration of onopen's loop: messageQueue.shift(), sendToBackend(msg),
\* and the test of the next iteration.  No other callback runs in between.
FlushStep(throws) ==
    /\ flushing
    /\ mayThrow(throws)
    /\ LET msg == Head(messageQueue)
           S == sendToBackend([TState EXCEPT !.messageQueue = Tail(@)], msg, throws)
       IN  /\ SetTState(S)
           /\ flushing' = (S.messageQueue # <<>>)
    /\ drainTurn' = 1 - drainTurn
    /\ nSendFails' = IF throws THEN nSendFails + 1 ELSE nSendFails
    /\ UNCHANGED <<reconnectAttempts, reconnectTimers, workload, nSent, nConfigs>>
    /\ UNCHANGED <<wvars, pvars, gvars, svars, cvars>>

\* The close event of socket s (after its error event, if the connection
\* failed): onerror and onclose write the globals, whichever socket s is.
SocketCloses(s) ==
    /\ ~flushing
    /\ s \in DOMAIN socks
    /\ reconnectAttempts < maxReconnectAttempts => reconnectTimers < MaxTimers
    /\ socks' = MapDelete(socks, s)
    /\ isConnecting' = FALSE
    /\ ws' = NoSocket
    /\ IF reconnectAttempts < maxReconnectAttempts
       THEN /\ reconnectAttempts' = reconnectAttempts + 1
            /\ reconnectTimers' = reconnectTimers + 1
       ELSE UNCHANGED <<reconnectAttempts, reconnectTimers>>
    /\ UNCHANGED <<messageQueue, flushing, delivered, attempts, workload, nSent,
                   nSendFails, nConfigs>>
    /\ UNCHANGED <<drainTurn, wvars, pvars, gvars, svars, cvars>>

\* setTimeout(connectWebSocket, config.reconnectInterval) fires.
ReconnectTimerFires ==
    /\ ~flushing
    /\ reconnectTimers > 0
    /\ reconnectTimers' = reconnectTimers - 1
    /\ LET S == connectWebSocket(TState)
       IN  /\ withinBounds(S)
           /\ SetTState(S)
    /\ UNCHANGED <<reconnectAttempts, flushing, workload, nSent, nSendFails, nConfigs>>
    /\ UNCHANGED <<drainTurn, wvars, pvars, gvars, svars, cvars>>

\* chrome.runtime.onMessage, 'update_config': ws.close() starts the closing
\* handshake (the close event comes later), then connectWebSocket().
UpdateConfig ==
    /\ ~flushing
    /\ nConfigs < MaxConfigs
    /\ nConfigs' = nConfigs + 1
    /\ LET closing == IF ws \in DOMAIN socks
                      THEN [TState EXCEPT !.socks[ws] = "closing"]
                      ELSE TState
           S == connectWebSocket(closing)
       IN  /\ withinBounds(S)
           /\ SetTState(S)
    /\ UNCHANGED <<reconnectAttempts, reconnectTimers, flushing, workload, nSent,
                   nSendFails>>
    /\ UNCHANGED <<drainTurn, wvars, pvars, gvars, svars, cvars>>

TransportNext ==
    \/ \E kind \in {"snapshot", "delta"}, throws \in BOOLEAN : TabSends(kind, throws)
    \/ TabConnects
    \/ \E s \in 1..(MaxLive + 1) : SocketOpens(s)
    \/ \E throws \in BOOLEAN : FlushStep(throws)
    \/ \E s \in 1..(MaxLive + 1) : SocketCloses(s)
    \/ ReconnectTimerFires
    \/ UpdateConfig

BackpressureNext == WorkloadSends

\* ------------------------------- perception agent: the tab-port table

PortTabs == {1, 2}

\* sendToBackend(message) from a port listener of the service worker.
portSend(message) ==
    /\ ~flushing
    /\ LET S == sendToBackend(TState, [f \in DOMAIN message \cup {"n"} |->
                                           IF f = "n" THEN nSent + 1 ELSE message[f]],
                              FALSE)
       IN  /\ withinBounds(S)
           /\ SetTState(S)
    /\ nSent' = nSent + 1
    /\ UNCHANGED <<reconnectAttempts, reconnectTimers, flushing, workload, nSendFails,
                   nConfigs, drainTurn>>

\* chrome.runtime.onConnect: the content script of tab T has opened a port
\* (connect() disconnects the port it held before it opens a new one).
onConnect(T) ==
    /\ Len(ports) < MaxPorts
    /\ \A p \in DOMAIN ports : ports[p].tab = T => ports[p].state # "connected"
    /\ ports' = Append(ports, [tab |-> T, state |-> "connected"])
    /\ tabPorts' = MapSet(tabPorts, T, Len(ports) + 1)
    /\ ~flushing
    /\ LET S == connectWebSocket(TState)
       IN  /\ withinBounds(S)
           /\ SetTState(S)
    /\ UNCHANGED <<reconnectAttempts, reconnectTimers, flushing, workload, nSent,
                   nSendFails, nConfigs, drainTurn>>
    /\ UNCHANGED <<routed, execs>>
    /\ UNCHANGED <<page, previousCandidates, deltaCallback, pendingUpdate, updateTimeout,
                   staleTimers, portOpen, wire, lastExtraction, nChanges, nRequests,
                   nForces, nConnects>>
    /\ UNCHANGED <<wvars, pvars, gvars, ivars, cvars>>

\* The content-script end of port p goes away: port.disconnect() in
\* connect(), or the document is unloaded.  The service worker learns of it
\* by the port's disconnect event.
PortCloses(p) ==
    /\ p \in DOMAIN ports
    /\ ports[p].state = "connected"
    /\ ports' = [ports EXCEPT ![p].state = "disconnecting"]
    /\ UNCHANGED <<tabPorts, routed, execs>>
    /\ UNCHANGED <<page, previousCandidates, deltaCallback, pendingUpdate, updateTimeout,
                   staleTimers, portOpen, wire, lastExtraction, nChanges, nRequests,
                   nForces, nConnects>>
    /\ UNCHANGED <<tvars, wvars, pvars, gvars, ivars, cvars>>

\* port.onDisconnect of port p in the service worker; the events of two
\* ports are delivered in either order.
onDisconnect(p) ==
    /\ p \in DOMAIN ports
    /\ ports[p].state = "disconnecting"
    /\ ports' = [ports EXCEPT ![p].state = "closed"]
    /\ tabPorts' = MapDelete(tabPorts, ports[p].tab)
    /\ portSend([type |-> "event", tabId |-> ports[p].tab, eventType |-> "unload"])
    /\ UNCHANGED <<routed, execs>>
    /\ UNCHANGED <<page, previousCandidates, deltaCallback, pendingUpdate, updateTimeout,
                   staleTimers, portOpen, wire, lastExtraction, nChanges, nRequests,
                   nForces, nConnects>>
    /\ UNCHANGED <<wvars, pvars, gvars, ivars, cvars>>

\* handleBackendMessage with a command for tab T: posted to the registered
\* port, or answered with a fail ack when no port is registered.
handleBackendMessage(T) ==
    /\ Len(routed) < MaxRouted
    /\ IF T \in DOMAIN tabPorts
       THEN /\ routed' = Append(routed, [tabId |-> T, port |-> tabPorts[T]])
            /\ UNCHANGED tvars
       ELSE /\ routed' = Append(routed, [tabId |-> T, port |-> 0])
            /\ portSend([type |-> "ack", commandId |-> newCommandId(Len(routed) + 1),
                         status |-> "fail", reason |-> "Tab not connected"])
    /\ UNCHANGED <<tabPorts, ports, execs>>
    /\ UNCHANGED <<page, previousCandidates, deltaCallback, pendingUpdate, updateTimeout,
                   staleTimers, portOpen, wire, lastExtraction, nChanges, nRequests,
                   nForces, nConnects>>
    /\ UNCHANGED <<wvars, pvars, gvars, ivars, cvars>>

PortsNext ==
    \/ \E T \in PortTabs : onConnect(T)
    \/ \E p \in 1..MaxPorts : PortCloses(p)
    \/ \E p \in 1..MaxPorts : onDisconnect(p)
    \/ \E T \in PortTabs : handleBackendMessage(T)

\* ------------------------------------------------------- specifications

InitWorld == WorldInit /\ PolicyIdle /\ GatewayInit /\ SyncInit /\ TransportInit /\ ClientInit

SpecWorld == InitWorld /\ [][WorldNext]_vars

InitPolicy == PolicyInit /\ WorldInit /\ GatewayInit /\ SyncInit /\ TransportInit /\ ClientInit

SpecPolicy == InitPolicy /\ [][PolicyNext]_vars

PolicyCasesNext ==
    \/ \E d \in {OneSecond} : Tick(d)
    \/ \E c \in CaseInputs : Check(c.type, c.url, c.name, 0)

InitPolicyCases == PolicyCasesInit /\ WorldInit /\ GatewayInit /\ SyncInit /\ TransportInit /\ ClientInit

SpecPolicyCases == InitPolicyCases /\ [][PolicyCasesNext]_vars

InitGateway == GatewayInit /\ WorldInit /\ GatewayPolicyInit /\ SyncInit /\ TransportInit /\ ClientInit

SpecGateway == InitGateway /\ [][GatewayNext]_vars

\* Node fires every armed timer that is not cleared.
SpecGatewayFair == SpecGateway /\ \A k \in 1..MaxActs : WF_vars(TimeoutFires(k))

InitBroadcast == GatewayInit /\ WorldInit /\ GatewayPolicyInit /\ SyncInit /\ TransportInit /\ ClientInit

SpecBroadcast == InitBroadcast /\ [][BroadcastNext]_vars

InitDeny == GatewayInit /\ WorldInit /\ DenyPolicyInit /\ SyncInit /\ TransportInit /\ ClientInit

SpecDeny == InitDeny /\ [][DenyNext]_vars

InitTransport == TransportInit /\ WorldInit /\ PolicyIdle /\ GatewayInit /\ SyncInit /\ ClientInit

SpecTransport == InitTransport /\ [][TransportNext]_vars

\* The drain loop runs on: its next iteration is taken.
SpecTransportFair == SpecTransport /\ WF_vars(\E throws \in BOOLEAN : FlushStep(throws))

InitBackpressure == BackpressureInit /\ WorldInit /\ PolicyIdle /\ GatewayInit /\ SyncInit /\ ClientInit

SpecBackpressure == InitBackpressure /\ [][BackpressureNext]_vars

InitFrames == GatewayInit /\ WorldInit /\ FramesPolicyInit /\ SyncInit /\ TransportInit /\ ClientInit

SpecFrames == InitFrames /\ [][FramesNext]_vars

InitHistory == GatewayInit /\ WorldInit /\ PolicyIdle /\ SyncInit /\ TransportInit /\ ClientInit

SpecHistory == InitHistory /\ [][HistoryNext]_vars

InitQuery == GatewayInit /\ WorldInit /\ PolicyIdle /\ SyncInit /\ TransportInit /\ ClientInit

SpecQuery == InitQuery /\ [][QueryNext]_vars

InitIdentity == SyncInit /\ WorldInit /\ PolicyIdle /\ GatewayInit /\ TransportInit /\ ClientInit

SpecIdentity == InitIdentity /\ [][IdentityNext]_vars

InitClient == ClientInit /\ WorldInit /\ PolicyIdle /\ GatewayInit /\ SyncInit /\ TransportInit

SpecClient == InitClient /\ [][ClientNext]_vars

InitExec == SyncInit /\ WorldInit /\ PolicyIdle /\ GatewayInit /\ TransportInit /\ ClientInit

SpecExec == InitExec /\ [][ExecNext]_vars

InitDelta == DeltaInit /\ WorldInit /\ PolicyIdle /\ GatewayInit /\ TransportInit /\ ClientInit

SpecDelta == InitDelta /\ [][DeltaNext]_vars

InitDrift == SyncInit /\ WorldInit /\ PolicyIdle /\ GatewayInit /\ TransportInit /\ ClientInit

SpecDrift == InitDrift /\ [][DriftNext]_vars

InitFind == FindInit /\ WorldInit /\ PolicyIdle /\ GatewayInit /\ TransportInit /\ ClientInit

SpecFind == InitFind /\ [][FindNext]_vars

InitRequests == ClientInit /\ WorldInit /\ PolicyIdle /\ GatewayInit /\ SyncInit /\ TransportInit

SpecRequests == InitRequests /\ [][RequestsNext]_vars

InitPorts == TransportInit /\ WorldInit /\ PolicyIdle /\ GatewayInit /\ SyncInit /\ ClientInit

SpecPorts == InitPorts /\ [][PortsNext]_vars

InitSync == SyncInit /\ WorldInit /\ PolicyIdle /\ GatewayInit /\ TransportInit /\ ClientInit

SpecSync == InitSync /\ [][SyncNext]_vars

\* The browser fires every timer that is scheduled and not cleared.
SpecSyncFair == SpecSync /\ WF_vars(TimerFires) /\ WF_vars(StaleTimerFires)

\* ----------------------------------------------------- policy: the claims

\* The allowed commands whose timestamps lie in the window of `width` ms that
\* ends at (and includes) time t: those less than `width` ms before t.
allowedWithin(width, t) ==
    {j \in DOMAIN allowedLog : allowedLog[j] > t - width /\ allowedLog[j] <= t}

\* C5: under a fixed configuration, with checkCommand called at non-decreasing
\* times, the allowed commands that lie less than 1 s apart are never more than
\* maxCommandsPerSecond, and those less than 60 s apart never more than
\* maxCommandsPerMinute (every window is covered by the one that ends at its
\* last allowed command).  And with maxCommandsPerSecond = 1, a command that
\* passes the domain check less than 1000 ms after an allowed one is denied,
\* with the reason 'per second' unless the minute limit is reached too.
C5_RateWindows ==
    /\ \A i \in DOMAIN allowedLog :
           /\ Cardinality(allowedWithin(OneSecond, allowedLog[i]))
                  <= config.maxCommandsPerSecond
           /\ Cardinality(allowedWithin(OneMinute, allowedLog[i]))
                  <= config.maxCommandsPerMinute
    /\ (/\ lastCheck.op = "check"
        /\ config.maxCommandsPerSecond = 1
        /\ lastCheck.reason # "Domain not allowed: "
        /\ \E j \in DOMAIN lastCheck.logBefore :
               lastCheck.logBefore[j] > lastCheck.at - OneSecond)
       => /\ ~lastCheck.allowed
          /\ lastCheck.reason \in { "Rate limit exceeded (per second)",
                                    "Rate limit exceeded (per minute)" }
          /\ Len(SelectSeq(lastCheck.logBefore,
                           LAMBDA x : x >= lastCheck.at - OneMinute))
                 < config.maxCommandsPerMinute
             => lastCheck.reason = "Rate limit exceeded (per second)"

\* C5 witness: with maxCommandsPerSecond = 1 a first command was allowed and a
\* second, less than 1000 ms later, was denied 'per second'; a third command
\* was allowed once the second had passed.
C5_Witness ==
    /\ config.maxCommandsPerSecond = 1
    /\ lastCheck.op = "check"
    /\ ~lastCheck.allowed
    /\ lastCheck.reason = "Rate limit exceeded (per second)"
    /\ Len(allowedLog) = 1
    /\ lastCheck.at > allowedLog[1]
    /\ lastCheck.at < allowedLog[1] + OneSecond

\* The names that match a pattern of DELETE_PATTERNS, of PAYMENT_PATTERNS.
DeleteNames == {"Delete account"}

PaymentNames == {"Buy now"}

ActionReasons == {"Payment action blocked: ", "Delete action blocked: "}

\* C12: with the blocking switches on, click and type on a candidate whose
\* known name matches a delete (payment) pattern are denied; hover, scroll and
\* the other types are never denied by an action-name pattern, and no command
\* is when the candidate's name is unknown.
C12_ActionNameRule ==
    lastCheck # NoCheck =>
        /\ (/\ lastCheck.type \in {"click", "type"}
            /\ \/ config.blockDeleteActions /\ lastCheck.name \in DeleteNames
               \/ config.blockPaymentActions /\ lastCheck.name \in PaymentNames)
               => ~lastCheck.allowed
        /\ (/\ lastCheck.type \in {"click", "type"}
            /\ config.blockDeleteActions /\ lastCheck.name \in DeleteNames
            /\ lastCheck.logBefore = <<>>)
               => (lastCheck.reason = "Delete action blocked: "
                     /\ lastCheck.arg = lastCheck.name)
        /\ (/\ lastCheck.type \in {"click", "type"}
            /\ config.blockPaymentActions /\ lastCheck.name \in PaymentNames
            /\ lastCheck.logBefore = <<>>)
               => (lastCheck.reason = "Payment action blocked: "
                     /\ lastCheck.arg = lastCheck.name)
        /\ lastCheck.type \notin {"click", "type"} => lastCheck.reason \notin ActionReasons
        /\ lastCheck.name = Undefined => lastCheck.reason \notin ActionReasons
        /\ (lastCheck.type \notin {"click", "type"} /\ lastCheck.logBefore = <<>>)
               => lastCheck.allowed

\* A hover on the candidate named 'Delete account' was allowed while
\* blockDeleteActions is on.
C12_Witness ==
    /\ lastCheck # NoCheck
    /\ config.blockDeleteActions
    /\ lastCheck.type = "hover"
    /\ lastCheck.name = "Delete account"
    /\ lastCheck.allowed

\* C13: under allowlist or blocklist a command whose tab url does not parse
\* as a URL, the empty string included, is denied by the domain check.
C13_MalformedUrlDenied ==
    (/\ lastCheck # NoCheck
     /\ config.domainMode \in {"allowlist", "blocklist"}
     /\ lastCheck.url \in {"", "not a url"})
        => (~lastCheck.allowed /\ lastCheck.reason = "Domain not allowed: ")

\* h is what is left of log once some of its oldest entries are dropped.
isSuffix(h, log) ==
    \E k \in 0..Len(log) : h = SubSeq(log, k + 1, Len(log))

\* One step of checkCommand: an allowed check appends exactly the timestamp
\* it reads to the history the cleaning loop left; a denied one appends
\* nothing, and the same command checked again at once is denied alike.
C32_CheckStep ==
    (nChecks' = nChecks + 1 /\ lastCheck'.op = "check") =>
        LET cleaned == cleanOld(commandHistory, now - OneMinute)
            again == checkCommand(config, commandHistory', now', now',
                                  lastCheck'.type, lastCheck'.url, lastCheck'.name)
        IN  /\ lastCheck'.allowed => commandHistory' = Append(cleaned, now')
            /\ ~lastCheck'.allowed =>
                  /\ commandHistory' \in {commandHistory, cleaned}
                  /\ ~again.allowed
                  /\ again.reason = lastCheck'.reason
                  /\ again.history = commandHistory'

\* C32: only an allowed check appends to the rate-limit history, and exactly
\* one timestamp; a check denied by domain, rate limit or action-name pattern
\* appends nothing, so the history only ever holds timestamps of allowed
\* commands, and a denied command checked again against the same
\* configuration and the same window is denied for the same reason.
C32_OnlyAllowedRecorded ==
    /\ [](isSuffix(commandHistory, allowedLog))
    /\ [][C32_CheckStep]_vars

\* An allowed command is in the history and, after it, a command was denied
\* by an action-name pattern: the history still holds the one timestamp.
C32_Witness ==
    /\ lastCheck.op = "check"
    /\ ~lastCheck.allowed
    /\ lastCheck.reason = "Delete action blocked: "
    /\ nChecks = 3
    /\ Len(allowedLog) = 1
    /\ commandHistory = allowedLog

\* The rules the last checked command violates, each decided on its own: the
\* domain rule, the two rate limits (over the commands allowed before it) and
\* the action-name patterns.
violatesDomain ==
    ~Falsy(lastCheck.url) /\ ~isDomainAllowed(config, lastCheck.url)

violatesMinute ==
    Len(SelectSeq(lastCheck.logBefore, LAMBDA x : x >= lastCheck.at - OneMinute))
        >= config.maxCommandsPerMinute

violatesSecond ==
    Len(SelectSeq(lastCheck.logBefore, LAMBDA x : x > lastCheck.at - OneSecond))
        >= config.maxCommandsPerSecond

violatesActionName ==
    /\ lastCheck.type \in {"click", "type"}
    /\ \/ isPaymentAction(config, lastCheck.name)
       \/ isDeleteAction(config, lastCheck.name)

\* C33: the checks run in the order domain, rate limit (per minute, then per
\* second), action-name pattern, and the reason of a denial is that of the
\* first rule in this order that the command violates.
C33_FirstFailingCheck ==
    lastCheck.op = "check" =>
        IF violatesDomain
        THEN ~lastCheck.allowed /\ lastCheck.reason = "Domain not allowed: "
                /\ lastCheck.arg = lastCheck.url
        ELSE IF violatesMinute
        THEN ~lastCheck.allowed /\ lastCheck.reason = "Rate limit exceeded (per minute)"
        ELSE IF violatesSecond
        THEN ~lastCheck.allowed /\ lastCheck.reason = "Rate limit exceeded (per second)"
        ELSE IF violatesActionName
        THEN ~lastCheck.allowed /\ lastCheck.reason \in ActionReasons
                /\ lastCheck.arg = lastCheck.name
        ELSE lastCheck.allowed

\* A command that violates the domain rule and both rate limits was denied
\* with 'Domain not allowed'.
C33_Witness ==
    /\ lastCheck.op = "check"
    /\ violatesDomain
    /\ violatesMinute
    /\ violatesSecond
    /\ lastCheck.reason = "Domain not allowed: "

\* A command that violates the per-second limit and an action-name pattern
\* was denied with the rate-limit reason.
C33_RateBeforeActionName ==
    /\ lastCheck.op = "check"
    /\ ~violatesDomain
    /\ violatesSecond
    /\ violatesActionName
    /\ lastCheck.reason = "Rate limit exceeded (per second)"

\* ---------------------------------------------------- gateway: the claims

\* The number of ack frames for command k that the gateway sent to requester c.
RECURSIVE ackCount(_, _)
ackCount(frames, k) ==
    IF frames = <<>> THEN 0
    ELSE (IF Head(frames).type = "ack" /\ Head(frames).commandId = k THEN 1 ELSE 0) + ackCount(Tail(frames), k)

wasSent(k) == \E i \in DOMAIN toAgent : toAgent[i] = k

\* The act's promise is resolved, and its requester, unless its socket has
\* closed, has been sent an ack frame for it.
answered(k) ==
    /\ k \in DOMAIN acts
    /\ acts[k].resolved # <<>>
    /\ \/ acts[k].requester \in replClosed
       \/ ackCount(outbox[acts[k].requester], k) >= 1

\* C1: every act request and every POST /command is eventually answered with
\* an ack, whether the policy denies it, no agent is connected, the agent never
\* answers, or the agent disconnects after the command was sent.
C1_EveryCommandAnswered ==
    \A k \in 1..MaxActs : (k \in DOMAIN acts) ~> answered(k)

\* A command was transmitted, the agent disconnected without answering, and
\* the requester has its 'Command timeout' ack.
C1_Witness ==
    \E k \in DOMAIN acts :
        /\ wasSent(k)
        /\ ~extensionOpen
        /\ nAcks = 0
        /\ answered(k)
        /\ acts[k].resolved[1].reason = "Command timeout"

\* C2: a controller that issues an act receives exactly one ack frame carrying
\* that act's commandId (none before the act is resolved, one after).
C2_ExactlyOneAck ==
    \A k \in DOMAIN acts :
        LET c == acts[k].requester
        IN  c \in DOMAIN replConnections =>
                /\ ackCount(outbox[c], k) <= 1
                /\ acts[k].resolved # <<>> => ackCount(outbox[c], k) = 1

\* C4: under domainMode "allowlist" every command transmitted to the agent
\* targets a tab whose recorded url has a host equal to, or a subdomain of, an
\* entry of domainList; a tab with no TabState has no such url.
C4_AllowlistOnlyListedHosts ==
    config.domainMode = "allowlist" =>
        \A i \in DOMAIN toAgent :
            LET url == acts[toAgent[i]].tabUrl
            IN  /\ url # Undefined
                /\ \E j \in DOMAIN config.domainList :
                       domainMatches(toLowerCase(hostname(url)),
                                     toLowerCase(Pieces(config.domainList[j])))

\* C6: an ack frame from the agent whose commandId has no pending entry is
\* dropped: no waiter is resolved, the pending table is unchanged and no frame
\* is sent to any controller.
C6_UnmatchedAckDropped ==
    [][ (nAcks' = nAcks + 1 /\ pendingCommands = EmptyMap)
            => (acts' = acts /\ pendingCommands' = pendingCommands /\ outbox' = outbox)
      ]_vars

\* C7: a command recorded in the pending table is resolved exactly once, by
\* the agent's ack (which cancels the timer) or by the timeout (a 'Command
\* timeout' ack), whichever comes first; from then on its commandId is absent
\* from the table, its timer is not armed and resolve is not called again.
C7_ResolvedExactlyOnce ==
    \A i \in DOMAIN toAgent :
        LET k == toAgent[i]
            r == acts[k].resolved
        IN  /\ Len(r) <= 1
            /\ r = <<>> => (k \in DOMAIN pendingCommands /\ k \in timers)
            /\ r # <<>> =>
                   /\ k \notin DOMAIN pendingCommands
                   /\ k \notin timers
                   /\ \/ r[1] = ackFrame(k, "fail", "Command timeout", NoTabId)
                      \/ \E kind \in AckKinds : r[1] = agentAck(k, kind)

\* The agent's ack arrived before the timeout and resolved the command.
C7_Witness ==
    \E k \in DOMAIN acts :
        /\ wasSent(k)
        /\ nAcks = 1
        /\ acts[k].resolved # <<>>
        /\ acts[k].resolved[1].reason # "Command timeout"

\* ------------------------------------------------ world state: the claims

idsOf(list) == {list[i].id : i \in DOMAIN list}

elemsOf(list) == {list[i] : i \in DOMAIN list}

\* The last entry of a list that satisfies P (the list has one).
lastIndex(list, P(_)) ==
    CHOOSE i \in DOMAIN list : P(list[i]) /\ \A j \in DOMAIN list : P(list[j]) => j <= i

candidatesBefore(T) ==
    IF T \in DOMAIN last.before THEN last.before[T].candidates ELSE EmptyMap

\* C8: after handleSnapshot for tab T, whatever T held before, the candidate
\* map of T holds exactly the snapshot's candidates, keyed by id (the last
\* one of an id that occurs twice), and deltaHistory of T is empty.
C8_SnapshotReplaces ==
    last.op = "snapshot" =>
        LET T == last.msg.tabId
            cs == last.msg.candidates
        IN  /\ T \in DOMAIN tabs
            /\ DOMAIN tabs[T].candidates = idsOf(cs)
            /\ \A k \in idsOf(cs) :
                   tabs[T].candidates[k] = cs[lastIndex(cs, LAMBDA c : c.id = k)]
            /\ tabs[T].deltaHistory = <<>>

\* C8 witness: a snapshot was applied to a tab that held a candidate the
\* snapshot does not carry, and a delta history.
C8_Witness ==
    /\ last.op = "snapshot"
    /\ last.msg.tabId \in DOMAIN last.before
    /\ last.before[last.msg.tabId].deltaHistory # <<>>
    /\ DOMAIN candidatesBefore(last.msg.tabId) \ idsOf(last.msg.candidates) # {}
    /\ last.msg.candidates # <<>>

\* C9 as stated: after handleDelta on an existing tab the candidate ids are
\* (previous ids \cup added ids) \ removed ids, for every delta.
C9_Original ==
    (last.op = "delta" /\ last.msg.tabId \in DOMAIN last.before) =>
        LET T == last.msg.tabId
        IN  DOMAIN tabs[T].candidates =
                (DOMAIN candidatesBefore(T) \cup idsOf(last.msg.added))
                    \ elemsOf(last.msg.removed)

\* The value of field f of candidate k after the updates: that of the last
\* entry of `updated` for k that carries f, else the base candidate's.
mergedField(base, updated, k, f) ==
    IF \E i \in DOMAIN updated : updated[i].id = k /\ f \in DOMAIN updated[i]
    THEN updated[lastIndex(updated, LAMBDA u : u.id = k /\ f \in DOMAIN u)][f]
    ELSE base[f]

\* C9 (amended): after handleDelta on an existing tab the candidate ids are
\* (previous ids \ removed ids) \cup added ids, so an id that is both removed
\* and added stays; each candidate is the added one of its id (else the
\* previous one) with the fields carried by `updated` entries of its id
\* overwritten, and an `updated` entry for an absent id creates nothing.
C9_DeltaApplied ==
    (last.op = "delta" /\ last.msg.tabId \in DOMAIN last.before) =>
        LET T == last.msg.tabId
            d == last.msg
            prev == candidatesBefore(T)
            cur == tabs[T].candidates
            base(k) == IF k \in idsOf(d.added)
                       THEN d.added[lastIndex(d.added, LAMBDA c : c.id = k)]
                       ELSE prev[k]
        IN  /\ DOMAIN cur = (DOMAIN prev \ elemsOf(d.removed)) \cup idsOf(d.added)
            /\ \A k \in DOMAIN cur :
                   /\ DOMAIN cur[k] = {"id", "name", "disabled"}
                   /\ \A f \in DOMAIN cur[k] :
                          cur[k][f] = mergedField(base(k), d.updated, k, f)

\* C9 witness: a delta that removes and adds the same id, and carries an
\* update for an id that is in the map and changes it.
C9_Witness ==
    /\ last.op = "delta"
    /\ last.msg.tabId \in DOMAIN last.before
    /\ elemsOf(last.msg.removed) \cap idsOf(last.msg.added) # {}
    /\ \E i \in DOMAIN last.msg.updated :
           LET u == last.msg.updated[i]
           IN  /\ u.id \in DOMAIN tabs[last.msg.tabId].candidates
               /\ u.id \in DOMAIN candidatesBefore(last.msg.tabId)
               /\ tabs[last.msg.tabId].candidates[u.id]
                      # candidatesBefore(last.msg.tabId)[u.id]

\* C10: applying the same delta a second time leaves the candidate map as
\* the first application left it (same ids, same field values).
C10_ReplayIdempotent ==
    (last.op = "replay" /\ last.msg.tabId \in DOMAIN tabs) =>
        tabs[last.msg.tabId].candidates = candidatesBefore(last.msg.tabId)

\* C10 witness: a replayed delta that removes, adds and updates, on a tab
\* whose map is not empty afterwards.
C10_Witness ==
    /\ last.op = "replay"
    /\ last.msg.tabId \in DOMAIN tabs
    /\ last.msg.removed # <<>>
    /\ last.msg.added # <<>>
    /\ last.msg.updated # <<>>
    /\ tabs[last.msg.tabId].candidates # EmptyMap

\* ------------------------------------------- perception agent: the claims

\* C3: once the gateway has applied every message the agent has emitted, the
\* candidate ids of the tab's TabState are those of the agent's most recent
\* extraction.
C3_GatewayMatchesExtraction ==
    (portOpen /\ wire = <<>>) =>
        /\ SyncTab \in DOMAIN tabs
        /\ DOMAIN tabs[SyncTab].candidates = idsOf(lastExtraction)

\* C23: while the watcher runs, every trigger is in the end followed by a
\* processed update, for every sequence of startWatching, stopWatching and
\* forceUpdate: a watcher whose document differs from its baseline (a trigger
\* has fired for a change that no update has processed yet) comes to a state
\* where the baseline is the document again, or the watcher has been stopped.
C23_TriggerProcessed ==
    (deltaCallback /\ extractActionMap # previousCandidates)
        ~> (~deltaCallback \/ extractActionMap = previousCandidates)

\* ------------------------------- claims: perception agent, element identity

\* C21: within one page two distinct elements never carry the same candidate
\* id, whatever elements are inserted and removed and whatever DOM id
\* attributes are set or removed; so getElementById of an element's id finds
\* that element.
C21_IdsUnique ==
    /\ \A e1, e2 \in DOMAIN elementIdMap :
          (e1 # e2 /\ dom[e1].attached /\ dom[e2].attached) =>
              elementIdMap[e1] # elementIdMap[e2]
    /\ \A e \in DOMAIN elementIdMap :
          dom[e].attached => getElementById(dom, elementIdMap, elementIdMap[e]) = e

\* C22: once an element has a candidate id, every later extraction of that
\* element yields that id: after any step (an insertion, a removal, a change
\* of a DOM id, an extraction) getElementId of the element returns the id it
\* had before the step.
C22_IdStable ==
    [][\A e \in DOMAIN elementIdMap :
          getElementId(dom', [map |-> elementIdMap', counter |-> idCounter'], e).map[e]
             = elementIdMap[e]]_vars

C22_Witness ==
    /\ lastDom = [op |-> "extract"]
    /\ dom[1].attached
    /\ dom[1].domId = "y"
    /\ 1 \in DOMAIN elementIdMap
    /\ elementIdMap[1] = "e_x"
    /\ dom[2].attached
    /\ dom[2].domId = ""
    /\ 2 \in DOMAIN elementIdMap
    /\ elementIdMap[2] = "a_0"
    /\ ~dom[3].attached
    /\ 3 \in DOMAIN elementIdMap

\* ---------------------------------------------- claims: controller client

\* C24: a command issued through the client resolves with the result built
\* from the ack that carries its commandId as soon as that ack is delivered
\* (ok iff the status is ok or verify), and is not rejected with 'Request
\* timeout' when the ack was delivered before the 30 s were over.
C24_AckResolvesCall ==
    \A k \in DOMAIN calls :
        calls[k].ack # NoAck =>
            /\ calls[k].outcome = "resolved"
            /\ calls[k].result = commandResult(calls[k].ack)
            /\ calls[k].result.commandId = calls[k].command.commandId

\* ------------------------------ claims: perception agent, the page's executor

\* The cases in which the claim says the ack is a fail ack: the id resolves
\* to no element, the element is of the wrong type for the action, the
\* dispatch throws, or the command type is unknown.
mustFail(cmd, throws) ==
    LET kind == kindOf(IF cmd.type = "scroll" THEN cmd.target ELSE field(cmd, "id"))
    IN  \/ cmd.type \in {"hover", "click", "type", "focus", "select"} /\ kind = "none"
        \/ cmd.type = "type" /\ kind # "input"
        \/ cmd.type = "select" /\ kind # "select"
        \/ cmd.type = "focus" /\ kind = "svg"
        \/ cmd.type \notin {"hover", "click", "type", "scroll", "focus", "select"}
        \/ throws /\ cmd.type \in {"hover", "click", "type", "scroll", "focus", "select"}
                  /\ ~(cmd.type = "scroll" /\ cmd.target # "viewport" /\ kind = "none")

\* C28: for every command handed to the page's executor, executeCommand
\* returns one ack that carries the command's commandId, a fail ack with a
\* reason in each of the error cases, and once the executor has returned the
\* content script has sent that ack exactly once.
C28_OneAckPosted ==
    \A k \in DOMAIN execs :
        /\ execs[k].ack.type = "ack"
        /\ execs[k].ack.commandId = execs[k].command.commandId
        /\ \A throws \in BOOLEAN :
              (mustFail(execs[k].command, throws)
               /\ execs[k].ack = executeInPage(execs[k].command, throws)) =>
                  execs[k].ack.status = "fail" /\ execs[k].ack.reason # ""
        /\ execs[k].stage = "returned" => execs[k].posted = 1

\* ------------------------------------------- claims: gateway, the denials

\* The reasons checkCommand gives when it denies.
PolicyReasons ==
    { "Domain not allowed: ", "Rate limit exceeded (per minute)",
      "Rate limit exceeded (per second)", "Payment action blocked: ",
      "Delete action blocked: " }

isTransmitted(k) == \E i \in DOMAIN toAgent : toAgent[i] = k

framesFor(frames, k) ==
    SelectSeq(frames, LAMBDA f : f.type = "ack" /\ f.commandId = k)

\* C11: a command the policy denies (by domain, rate limit or action name) is
\* never transmitted to the agent, has no pending entry and no timer, and its
\* requester is sent exactly the fail ack with the command's id and the
\* policy's reason (for a domain denial, the reason names the tab's url).
C11_DeniedNeverTransmitted ==
    \A k \in DOMAIN acts :
        ~acts[k].policy.allowed =>
            /\ ~isTransmitted(k)
            /\ k \notin DOMAIN pendingCommands
            /\ \A id \in DOMAIN pendingCommands : pendingCommands[id] # k
            /\ k \notin timers
            /\ acts[k].policy.reason \in PolicyReasons
            /\ acts[k].policy.reason = "Domain not allowed: "
                   => acts[k].policy.arg = acts[k].tabUrl
            /\ acts[k].resolved = <<ackFrame(k, "fail", acts[k].policy.reason, NoTabId)>>
            /\ framesFor(outbox[acts[k].requester], k) = acts[k].resolved

C11_Witness ==
    /\ \E k \in DOMAIN acts : acts[k].policy.reason = "Delete action blocked: "
    /\ \E k \in DOMAIN acts : acts[k].policy.reason = "Rate limit exceeded (per second)"
    /\ \E k \in DOMAIN acts : acts[k].policy.allowed /\ isTransmitted(k)

\* C14: a command the policy allows, issued while no agent socket is open, is
\* answered with the fail ack 'No extension connected' carrying its id; it is
\* never transmitted, never pending and never timed, so no other ack (no
\* 'Command timeout') is ever produced for it.
C14_NoExtensionConnected ==
    \A k \in DOMAIN acts :
        (acts[k].policy.allowed /\ ~acts[k].extensionOpen) =>
            /\ acts[k].resolved
                   = <<ackFrame(k, "fail", "No extension connected", NoTabId)>>
            /\ ~isTransmitted(k)
            /\ k \notin DOMAIN pendingCommands
            /\ k \notin timers
            /\ framesFor(outbox[acts[k].requester], k) = acts[k].resolved
            /\ \A c \in DOMAIN outbox : \A i \in DOMAIN outbox[c] :
                   (outbox[c][i].type = "ack" /\ outbox[c][i].commandId = k)
                       => outbox[c][i].reason = "No extension connected"

C14_Witness ==
    /\ extensionOpen
    /\ \E k \in DOMAIN acts :
           /\ acts[k].policy.allowed
           /\ ~acts[k].extensionOpen
           /\ acts[k].requester \in Ctrls

\* C15: a step that closes the agent socket leaves the pending table, the
\* timers and the acts as they were; while no agent socket is open a pending
\* entry is removed only by its timer, which resolves the command with the
\* fail ack 'Command timeout'; and every such entry is removed eventually.
C15_CloseStep ==
    (extensionOpen /\ ~extensionOpen') =>
        /\ pendingCommands' = pendingCommands
        /\ timers' = timers
        /\ acts' = acts
        /\ outbox' = outbox

C15_TimerStep ==
    \A k \in DOMAIN pendingCommands :
        (~extensionOpen /\ k \notin DOMAIN pendingCommands') =>
            /\ pendingCommands[k] \in timers
            /\ pendingCommands[k] \notin timers'
            /\ acts'[pendingCommands[k]].resolved
                   = Append(acts[pendingCommands[k]].resolved,
                            ackFrame(k, "fail", "Command timeout", NoTabId))

C15_PendingSurvivesDisconnect ==
    /\ [][C15_CloseStep /\ C15_TimerStep]_vars
    /\ \A k \in 1..MaxActs :
           (k \in DOMAIN pendingCommands /\ ~extensionOpen)
               ~> (/\ k \notin DOMAIN pendingCommands
                   /\ k \in DOMAIN acts
                   /\ acts[k].resolved # <<>>)

C15_Witness ==
    /\ ~extensionOpen
    /\ \E k \in DOMAIN acts :
           /\ acts[k].extensionOpen
           /\ isTransmitted(k)
           /\ k \notin DOMAIN pendingCommands
           /\ acts[k].resolved = <<ackFrame(k, "fail", "Command timeout", NoTabId)>>
           /\ framesFor(outbox[acts[k].requester], k) = acts[k].resolved

\* ---------------------------------------------- claims: gateway, fan-out

\* The frames a step sends to controller c.
newFrames(c) == SubSeq(outbox'[c], Len(outbox[c]) + 1, Len(outbox'[c]))

\* Frame f carries a tab id other than T.
carriesOther(f, T) == f.tabId # NoTabId /\ f.tabId # T

\* Frame f is the ack that resolves, in this step, a command c itself issued
\* (the reply case 'act' sends to its socket after executeCommand).
isOwnReply(c, f) ==
    /\ f.type = "ack"
    /\ f.commandId \in DOMAIN acts
    /\ acts[f.commandId].requester = c
    /\ acts[f.commandId].resolved = <<>>
    /\ acts'[f.commandId].resolved = <<f>>

isAgentMessage == msgSeq' = msgSeq + 1 \/ nAcks' = nAcks + 1

\* The statement as the spec words it: no frame carrying another tab id is
\* ever sent to a controller subscribed to T.
C16_Original ==
    [][ \A c \in DOMAIN replConnections :
            LET T == replConnections[c].subscribedTabId
            IN  T # NoTabId =>
                    \A i \in DOMAIN newFrames(c) : ~carriesOther(newFrames(c)[i], T)
      ]_vars

\* C16: the broadcast never sends a controller subscribed to T a telemetry
\* message or ack carrying another tab id; the only such frame the controller
\* is sent is the ack resolving its own command, sent once, directly.  A
\* controller without subscription, and a controller subscribed to the
\* message's tab, is sent every telemetry message and ack of the agent.
C16_BroadcastFilter ==
    [][ \A c \in DOMAIN replConnections :
            LET T == replConnections[c].subscribedTabId
                sent == newFrames(c)
                others == SelectSeq(sent, LAMBDA f : carriesOther(f, T))
            IN  /\ T # NoTabId =>
                       /\ Len(others) <= 1
                       /\ \A i \in DOMAIN others : isOwnReply(c, others[i])
                /\ (isAgentMessage /\ msgSeq' = msgSeq + 1) =>
                       IF T = NoTabId \/ last'.msg.tabId = T
                       THEN sent = <<last'.msg>>
                       ELSE sent = <<>>
                /\ (isAgentMessage /\ nAcks' = nAcks + 1) =>
                       IF T = NoTabId
                       THEN Len(sent) >= 1 /\ sent[1].type = "ack"
                       ELSE \A i \in DOMAIN sent :
                                \/ ~carriesOther(sent[i], T)
                                \/ isOwnReply(c, sent[i])
      ]_vars

C16_Witness ==
    \E c \in DOMAIN replConnections, k \in DOMAIN acts :
        /\ replConnections[c].subscribedTabId = 2
        /\ acts[k].requester = c
        /\ acts[k].command.tabId = 1
        /\ acts[k].resolved = <<ackFrame(k, "ok", "", 1)>>
        /\ outbox[c] = acts[k].resolved

\* --------------------------------------- claims: gateway, the agent's frames

\* The frame handled in this step, if the step handles one.
frameHandled == msgSeq' = msgSeq + 1

frameIs(types, T) ==
    /\ frameHandled
    /\ field(last'.msg, "type") \in types
    /\ field(last'.msg, "tabId") = T

\* C25: a TabState for tab T exists exactly when T has sent a hello or a
\* snapshot since its last unload event (or since the start). Step by step:
\* T has a TabState after a step iff the step handled a hello or snapshot of
\* T, or T had one before and the step did not handle an unload event of T.
\* So a delta, a pointer, a heartbeat, an event other than unload, and the
\* close of the agent socket neither create nor destroy a TabState.
C25_TabStateLifecycle ==
    [][\A T \in TabIds :
          (T \in DOMAIN tabs') <=>
             \/ frameIs({"hello", "snapshot"}, T)
             \/ /\ T \in DOMAIN tabs
                /\ ~(frameIs({"event"}, T) /\ last'.msg.eventType = "unload")]_vars

C25_Witness ==
    /\ ~extensionOpen
    /\ DOMAIN tabs = {1}
    /\ last.op = "event"
    /\ last.msg.eventType = "unload"
    /\ DOMAIN last.before = {1, 2}

\* C26: a malformed agent frame (a text that is no JSON, a message with a
\* required field missing) is dropped as a whole: the connection stays open,
\* and the world state and the table of pending commands are what they were
\* before the frame.
C26_MalformedDropped ==
    [][(frameHandled /\ last'.op = "caught") =>
          /\ tabs' = tabs
          /\ pointer' = pointer
          /\ pendingCommands' = pendingCommands
          /\ extensionOpen' = extensionOpen]_vars

\* C27: a query returns exactly the candidates of the tab that satisfy every
\* given filter (role and tag equal, visible = not occluded, enabled = not
\* state.disabled) and, when a search text is given, contain it without
\* regard to case in name, aria or id; so every returned candidate satisfies
\* the given filters, also when the search text is absent or empty.
containsText(c, search) ==
    LET query == toLowerCase(Pieces(search))
    IN  \/ includes(toLowerCase(Pieces(c.name)), query)
        \/ includes(toLowerCase(Pieces(c.aria)), query)
        \/ includes(toLowerCase(Pieces(c.id)), query)

satisfies(c, request) ==
    /\ hasFilter(request, "role") => c.role = request.filters.role
    /\ hasFilter(request, "tag") => c.tag = request.filters.tag
    /\ hasFilter(request, "visible") => request.filters.visible = ~c.occluded
    /\ hasFilter(request, "enabled") => request.filters.enabled = ~c.state.disabled
    /\ ("search" \in DOMAIN request /\ request.search # "") =>
           containsText(c, request.search)

theReply(c) == outbox[c][Len(outbox[c])]

C27_QueryReturnsMatches ==
    \A c \in Ctrls :
        (last.op = "query" /\ c \in DOMAIN outbox /\ outbox[c] # <<>>
         /\ theReply(c).type = "candidates") =>
            theReply(c).candidates =
                {cand \in getCandidates(tabs, last.msg.tabId) : satisfies(cand, last.msg)}

\* C29: the deltaHistory of a tab holds at most 50 deltas: the most recently
\* applied ones since the tab's last snapshot, in the order they arrived.
\* Step by step: a delta applied to a known tab T leaves in T's history the
\* last min(n, 50) entries of the old history followed by that delta, a
\* snapshot of T leaves it empty, and no other step changes it.
lastOf(h, n) == SubSeq(h, Len(h) - n + 1, Len(h))

C29_HistoryStep ==
    \A T \in DOMAIN tabs \cap DOMAIN tabs' :
        LET h == tabs[T].deltaHistory
            m == last'.msg
        IN  tabs'[T].deltaHistory =
               IF frameIs({"delta"}, T) /\ last'.op = "delta"
               THEN LET all == Append(h, m.timestamp)
                    IN  IF Len(all) > 50 THEN lastOf(all, 50) ELSE all
               ELSE IF frameIs({"snapshot"}, T) THEN <<>>
               ELSE h

C29_DeltaHistoryBounded ==
    /\ [](\A T \in DOMAIN tabs : Len(tabs[T].deltaHistory) <= 50)
    /\ [][C29_HistoryStep]_vars

C29_Witness ==
    /\ last.op = "delta"
    /\ 1 \in DOMAIN last.before
    /\ Len(last.before[1].deltaHistory) = 50
    /\ Len(tabs[1].deltaHistory) = 50
    /\ tabs[1].deltaHistory[50] = msgSeq
    /\ tabs[1].deltaHistory[1] = last.before[1].deltaHistory[2]

\* C30: handleHello for a tab that has a TabState keeps its connectedAt,
\* candidates and deltaHistory, replaces url, viewport and userAgent by the
\* message's and lastUpdate by the time of the call, and changes no other tab.
C30_HelloKeepsTab ==
    [][(frameHandled /\ last'.op = "hello" /\ last'.msg.tabId \in DOMAIN tabs) =>
          LET m == last'.msg
              T == m.tabId
          IN  /\ DOMAIN tabs' = DOMAIN tabs
              /\ tabs'[T].connectedAt = tabs[T].connectedAt
              /\ tabs'[T].candidates = tabs[T].candidates
              /\ tabs'[T].deltaHistory = tabs[T].deltaHistory
              /\ tabs'[T].url = m.url
              /\ tabs'[T].viewport = m.viewport
              /\ tabs'[T].userAgent = m.userAgent
              /\ tabs'[T].lastUpdate = now
              /\ \A U \in DOMAIN tabs \ {T} : tabs'[U] = tabs[U]]_vars

C30_Witness ==
    /\ last.op = "hello"
    /\ 1 \in DOMAIN last.before
    /\ last.msg.tabId = 1
    /\ last.before[1].url # tabs[1].url
    /\ tabs[1].candidates # EmptyMap
    /\ tabs[1].deltaHistory # <<>>
    /\ tabs[1].connectedAt < tabs[1].lastUpdate


\* C31: a delta for a tab that has no TabState (never seen, or erased by an
\* unload) is dropped: no TabState is created and every existing tab keeps
\* its candidate map and its deltaHistory.
C31_UnknownTabDeltaDropped ==
    [][(frameHandled /\ last'.op = "delta" /\ last'.msg.tabId \notin DOMAIN tabs) =>
          /\ DOMAIN tabs' = DOMAIN tabs
          /\ \A T \in DOMAIN tabs :
                /\ tabs'[T].candidates = tabs[T].candidates
                /\ tabs'[T].deltaHistory = tabs[T].deltaHistory]_vars

C31_Witness ==
    /\ last.op = "delta"
    /\ last.msg.tabId = 2
    /\ 2 \notin DOMAIN last.before
    /\ 1 \in DOMAIN tabs
    /\ tabs[1].candidates # EmptyMap
    /\ tabs[1].deltaHistory # <<>>

\* ------------------------------- claims: perception agent, computeDelta

\* The delta that a processed update computed: the one it emitted, or the
\* empty one when it emitted nothing.
computedDelta ==
    IF wire' = wire THEN [added |-> <<>>, removed |-> <<>>, updated |-> <<>>]
    ELSE wire'[Len(wire')]

\* The fields in which the two extractions of a candidate differ as
\* diffCandidate compares them: the rect beyond 2 pixels (reported with rectN
\* and hit), a state flag, name, value, occluded, ctx.inModal or ctx.inNav.
reportedFields(old, new) ==
    (IF \E f \in {"x", "y", "w", "h"} :
            old.rect[f] - new.rect[f] > 2 \/ new.rect[f] - old.rect[f] > 2
     THEN {"rect", "rectN", "hit"} ELSE {})
    \cup {f \in {"state", "name", "value", "occluded"} : old[f] # new[f]}
    \cup (IF old.ctx.inModal # new.ctx.inModal \/ old.ctx.inNav # new.ctx.inNav
          THEN {"ctx"} ELSE {})

\* removed, added, the ids of updated and their disjointness, with the test
\* an entry of `updated` has to pass left open.
deltaIs(entryOk(_, _, _)) ==
    nForces' = nForces + 1 =>
        LET prev == previousCandidates
            cur == page
            d == computedDelta
            both == idsOf(prev) \cap idsOf(cur)
        IN  /\ elemsOf(d.removed) = idsOf(prev) \ idsOf(cur)
            /\ elemsOf(d.added) = {c \in elemsOf(cur) : c.id \notin idsOf(prev)}
            /\ \A i \in DOMAIN d.updated :
                   LET u == d.updated[i]
                   IN  /\ u.id \in both
                       /\ DOMAIN u \ {"id"} # {}
                       /\ \A f \in DOMAIN u \ {"id"} : u[f] = getById(cur, u.id)[f]
                       /\ entryOk(u, getById(prev, u.id), getById(cur, u.id))
            /\ idsOf(d.added) \cap elemsOf(d.removed) = {}
            /\ idsOf(d.added) \cap idsOf(d.updated) = {}
            /\ idsOf(d.updated) \cap elemsOf(d.removed) = {}

\* C34 as stated: every field an entry of `updated` holds, besides the id,
\* differs between the previous and the current record.
C34_OnlyChangedFields ==
    [][deltaIs(LAMBDA u, old, new : \A f \in DOMAIN u \ {"id"} : old[f] # new[f])]_vars

\* C34 (amended): removed = ids in previous but not in current, added = the
\* full records of ids in current but not in previous, updated = one entry
\* for each id in both sets for which diffCandidate reports a change, holding
\* the id and the reported fields: rect, rectN and hit together when the
\* rect moved by more than 2 pixels, and each of state, name, value,
\* occluded, ctx that differs; the three id sets are pairwise disjoint.
C34_ComputeDelta ==
    [][/\ deltaIs(LAMBDA u, old, new : DOMAIN u \ {"id"} = reportedFields(old, new))
       /\ nForces' = nForces + 1 =>
              \A k \in idsOf(previousCandidates) \cap idsOf(page) :
                  reportedFields(getById(previousCandidates, k), getById(page, k)) # {}
                      => Cardinality({i \in DOMAIN computedDelta.updated :
                                          computedDelta.updated[i].id = k}) = 1]_vars

\* A delta with one id added and an update for an id in both sets whose
\* rect moved by more than 2 pixels about the same hit point.
C34_Witness ==
    /\ nForces = 1
    /\ wire # <<>>
    /\ Len(wire[1].added) = 1
    /\ Len(wire[1].updated) = 1
    /\ "hit" \in DOMAIN wire[1].updated[1]
    /\ wire[1].updated[1].hit = PageSaveA.hit

\* The step runs processPendingUpdate with the callback installed: the
\* debounce timer, a timer left behind, or forceUpdate.
updateProcessed ==
    /\ deltaCallback
    /\ nConnects' = nConnects
    /\ nChanges' = nChanges
    /\ \/ nForces' = nForces + 1
       \/ updateTimeout /\ ~updateTimeout' /\ staleTimers' = staleTimers
       \/ staleTimers' = staleTimers - 1
       \/ staleTimers > 0 /\ updateTimeout /\ ~updateTimeout'

\* The candidates are unchanged: same ids, same state, name, value, occluded
\* and ctx flags, each of x, y, w, h within 2 pixels.
sameCandidates(prev, cur) ==
    /\ idsOf(prev) = idsOf(cur)
    /\ \A k \in idsOf(prev) :
           LET old == getById(prev, k)
               new == getById(cur, k)
           IN  /\ \A f \in {"state", "name", "value", "occluded", "ctx"} : old[f] = new[f]
               /\ \A f \in {"x", "y", "w", "h"} :
                      old.rect[f] - new.rect[f] <= 2 /\ new.rect[f] - old.rect[f] <= 2

\* C35: a processed update that finds the candidates unchanged against the
\* previous processed update emits nothing; every processed update leaves
\* the extraction as the baseline of the next, so that with the document as
\* it was, timer fires and forceUpdate calls emit no delta.
C35_UnchangedEmitsNothing ==
    [][updateProcessed =>
          /\ sameCandidates(previousCandidates, page) => wire' = wire
          /\ previousCandidates' = page]_vars

\* The element moved by one pixel, the update was processed by forceUpdate
\* and nothing was emitted: the gateway holds the snapshot's rect.
C35_Witness ==
    /\ nForces = 1
    /\ nChanges >= 1
    /\ page = <<PageSaveANear>>
    /\ previousCandidates = page
    /\ wire = <<>>
    /\ SyncTab \in DOMAIN tabs
    /\ "a_0" \in DOMAIN tabs[SyncTab].candidates
    /\ tabs[SyncTab].candidates["a_0"].rect = PageSaveA.rect

\* C40: once the watcher has processed the document as it is and the gateway
\* has applied every message sent, each of x, y, w, h of the rect the gateway
\* holds for a candidate of the latest extraction is within 2 pixels of the
\* extracted one.
C40_RectWithinTolerance ==
    (/\ deltaCallback
     /\ previousCandidates = page
     /\ lastExtraction = page
     /\ wire = <<>>
     /\ SyncTab \in DOMAIN tabs)
        => \A k \in idsOf(page) \cap DOMAIN tabs[SyncTab].candidates :
               \A f \in {"x", "y", "w", "h"} :
                   LET held == tabs[SyncTab].candidates[k].rect[f]
                       extracted == getById(page, k).rect[f]
                   IN  held - extracted <= 2 /\ extracted - held <= 2

\* ------------------------------- claims: perception agent, the page's query

\* The best tier at which a candidate matches the search text, compared in
\* lower case: 1 exact name, 2 exact aria, 3 partial name, 4 partial aria,
\* 5 role and text, 6 no match.
tierOf(c, search) ==
    LET query == toLowerCase(Pieces(search))
        name == toLowerCase(Pieces(c.name))
        aria == toLowerCase(Pieces(c.aria))
    IN  IF name = query THEN 1
        ELSE IF aria = query THEN 2
        ELSE IF includes(name, query) THEN 3
        ELSE IF includes(aria, query) THEN 4
        ELSE IF /\ Len(query) >= 3 /\ query[2] = " " /\ c.role = query[1]
                /\ \/ includes(name, SubSeq(query, 3, Len(query)))
                   \/ includes(aria, SubSeq(query, 3, Len(query)))
        THEN 5
        ELSE 6

\* A query with a search text and no filters has returned.
searched(k) ==
    /\ k \in DOMAIN execs
    /\ execs[k].command.type = "query"
    /\ "search" \in DOMAIN execs[k].command
    /\ "filters" \notin DOMAIN execs[k].command

gatewayOf(candidates) == handleSnapshot(EmptyMap, createSnapshotMessage(candidates))

\* C37: for the same candidate list, search text and filters, the matches of
\* the page's executeQuery are the same set of candidates as those of the
\* gateway's searchCandidates.
C37_SameSearch ==
    \A k \in DOMAIN execs :
        (execs[k].command.type = "query" /\ "search" \in DOMAIN execs[k].command) =>
            elemsOf(execs[k].ack.result.matches)
                = searchCandidates(gatewayOf(page), SyncTab, execs[k].command.search,
                                   execs[k].command)

\* ----------------------------------- claims: controller client, requests

\* The response the gateway sends to the request of call k.
answers(message, k) ==
    IF calls[k].command.type = "query"
    THEN /\ message.type = "candidates"
         /\ message.candidates = candidatesOfTab(calls[k].command.tabId)
    ELSE "commandId" \in DOMAIN message
            /\ message.commandId = calls[k].command.commandId

\* C38: each request is settled once, by the gateway's response to that very
\* request or by its own 'Request timeout': no request is resolved with the
\* response to another request, and once its 30 s timer has fired a request
\* is not left unsettled.
C38_SettledByOwnResponse ==
    \A k \in DOMAIN calls :
        /\ calls[k].outcome = "resolved" => answers(calls[k].result, k)
        /\ calls[k].outcome = "rejected" => calls[k].result.type = "Request timeout"
        /\ ~calls[k].timer => calls[k].outcome # "pending"

\* ----------------------------- claims: perception agent, the tab-port table

\* C39: whenever a tab has a connected content-script port, the tab-port
\* table maps the tab id to that port (so that, when a newer port of the tab
\* connects before the disconnect of an older one is processed, the older
\* port's disconnect leaves the newer registration in place).
C39_LivePortRegistered ==
    \A p \in DOMAIN ports :
        ports[p].state = "connected" =>
            /\ ports[p].tab \in DOMAIN tabPorts
            /\ tabPorts[ports[p].tab] = p

\* ------------------------------------- perception agent: transport claims

\* C17: the messages handed to the socket are in the order the tabs produced
\* them: a message never follows one produced after it.
C17_DeliveredInOrder ==
    \A i, j \in DOMAIN delivered :
        i < j => delivered[i].n < delivered[j].n

\* C18: a drain that has started ends, with the queue empty.
C18_DrainTerminates ==
    flushing ~> (~flushing /\ messageQueue = <<>>)

\* The essential messages of a queue, and the last ten of them.
essentialOf(q) == SelectSeq(q, LAMBDA m : m.type = "snapshot" \/ m.type = "hello")

lastTenOf(q) ==
    [i \in 1..(IF Len(q) < 10 THEN Len(q) ELSE 10) |->
        q[Len(q) - (IF Len(q) < 10 THEN Len(q) ELSE 10) + i]]

\* A sendToBackend call that enqueues: the message produced last is not
\* handed to the socket.
isEnqueueStep == nSent' = nSent + 1 /\ delivered' = delivered

theMessage == [type |-> workload[(nSent % Len(workload)) + 1], n |-> nSent + 1]

\* C19: the queue never holds more than 100 messages; an enqueue onto a
\* queue of 100 leaves the last ten (or fewer) snapshot and hello messages of
\* the 101, in their order, and nothing else; an enqueue onto a shorter queue
\* appends.
C19_Backpressure ==
    /\ [](Len(messageQueue) <= 100)
    /\ [][ isEnqueueStep =>
               IF Len(messageQueue) = 100
               THEN messageQueue' = lastTenOf(essentialOf(Append(messageQueue, theMessage)))
               ELSE messageQueue' = Append(messageQueue, theMessage)
         ]_vars

C19_Witness ==
    /\ nSent = 101
    /\ Len(workload) = 6
    /\ Len(messageQueue) = 10
    /\ \A i \in DOMAIN messageQueue : messageQueue[i].type \in {"snapshot", "hello"}
    /\ messageQueue[10].n = 99

\* C20: no more than 10 WebSockets are created without a socket having
\* opened in between, and the attempt counter stays within 10.
C20_AttemptsBounded ==
    /\ attempts <= 10
    /\ reconnectAttempts <= 10

====
